---- MODULE Spec2Model ----
(***************************************************************************)
(* The study-plan scheduler of src/screens/UserDashboard.tsx               *)
(* (expandCycleItems, isSimuladoCompleted, generateSchedule) as a state    *)
(* machine.  One run of generateSchedule is a walk                          *)
(*   start -> day -> alloc -> visit -> ... -> dayEnd -> day -> ... -> done  *)
(* Dates are day numbers (day n is a 'domingo' when n % 7 = 0); array      *)
(* indices are 0-based as in the source (element i of s is s[i + 1]).      *)
(***************************************************************************)
EXTENDS Integers, Sequences, FiniteSets, TLC

\* ------------------------------------------------------------------ bounds
\* The horizon (MAX_DAYS = 90 at UserDashboard.tsx:697) and the per-day
\* safety counter (500 at UserDashboard.tsx:761) are scaled down; the plans
\* drawn below are small enough that the scaled values play the same role.
MAX_DAYS == 9
SafetyLimit == 10

\* ------------------------------------------------------------------- state
VARIABLES
    \* the arguments of generateSchedule and the machine's time zone
    plan, routine, startDateStr, completedGoals, userLevel, isPaused,
    allSimulados, userAttempts, utcOffset,
    \* locals of generateSchedule
    pc, schedule, disciplineQueues, disciplinePointers,
    currentCycleIndex, currentItemIndex,
    \* locals of one day (for-loop body)
    dayOffset, dateStr, minutesAvailable, dayItems, itemsProcessedToday, safetyLoop,
    \* locals of one discipline visit
    scheduledInThisSlot, lastSubName, processedSomething,
    \* history of one discipline visit: how many goals it has placed so far
    placedInVisit,
    \* the caller: how many runs were started, and what the first one returned
    runs, firstSchedule,
    \* the dashboard: the identities of the objects the schedule effect depends
    \* on, the dependencies and the inputs of its last run, the handlers called
    refs, effectDeps, ranWith, edits,
    \* the user's plans: the configuration of each plan (absent: <<>>), the
    \* user record's currentPlanId ("" when unset), the dashboard's current plan
    planConfigs, currentPlanId, currentPlan,
    \* the flashcard viewer: the deck, the index shown, the timeouts pending
    flashcards, currentIndex, timers

args == <<routine, startDateStr, completedGoals, userLevel, isPaused,
          allSimulados, userAttempts, utcOffset>>
cursors == <<currentCycleIndex, currentItemIndex>>
dayVars == <<dayOffset, dateStr, minutesAvailable, dayItems, itemsProcessedToday, safetyLoop>>
visitVars == <<scheduledInThisSlot, lastSubName, processedSomething, placedInVisit>>
account == <<planConfigs, currentPlanId, currentPlan>>
viewer == <<flashcards, currentIndex, timers>>
caller == <<runs, firstSchedule, refs, effectDeps, ranWith, edits, account, viewer>>
vars == <<plan, args, pc, schedule, disciplineQueues, disciplinePointers,
          cursors, dayVars, visitVars, caller>>

\* ------------------------------------------------------- JavaScript helpers
\* obj.f for a field that may be absent (absent ids read as falsy)
Field(obj, f) == IF f \in DOMAIN obj THEN obj[f] ELSE ""

HasCount(item) == "subjectsCount" \in DOMAIN item

\* a < b and a >= b of JavaScript when b may be undefined (both are false then)
JsLt(a, item) == HasCount(item) /\ a < item.subjectsCount
JsGe(a, item) == HasCount(item) /\ a >= item.subjectsCount

RECURSIVE InsertByOrder(_, _)
InsertByOrder(x, s) ==
    IF s = <<>> THEN <<x>>
    ELSE IF x.order < Head(s).order THEN <<x>> \o s
    ELSE <<Head(s)>> \o InsertByOrder(x, Tail(s))

\* mutation of SortByOrder: the array is left as it is stored
SortByOrder_Identity(s) == s

\* [...xs].sort((a, b) => a.order - b.order): stable, ascending
RECURSIVE SortByOrder(_)
SortByOrder(s) ==
    IF s = <<>> THEN <<>>
    ELSE InsertByOrder(s[Len(s)], SortByOrder(SubSeq(s, 1, Len(s) - 1)))

\* ------------------------------------------------------------------- dates
\* new Date(str + 'T00:00:00') is LOCAL midnight of day n; toISOString()
\* prints the UTC date of that instant (offsetHours = hours ahead of UTC).
ToISODate(localDay, offsetHours) == (localDay * 24 - offsetHours) \div 24

DayMap == <<"domingo", "segunda", "terca", "quarta", "quinta", "sexta", "sabado">>

\* mutation of getDayName: the weekday is read one day late
getDayName_Shifted(isoDate) == DayMap[((isoDate + 1) % 7) + 1]

\* new Date(dateStr + 'T12:00:00').getDay(): local noon stays on dateStr
getDayName(isoDate) == DayMap[(isoDate % 7) + 1]

\* routine.days[dayName] || 0
MinutesOf(rt, dayName) == IF dayName \in DOMAIN rt.days THEN rt.days[dayName] ELSE 0

\* Object.values(routine.days || {}).some(v => v > 0)
hasAvailability(rt) == \E k \in DOMAIN rt.days : rt.days[k] > 0

\* ---------------------------------------------------------- pure functions
ExpandOne(item, pl) ==
    IF Field(item, "folderId") # "" THEN
        LET folderDisciplines ==
                SortByOrder(SelectSeq(pl.disciplines,
                                      LAMBDA d : d.folderId = item.folderId))
        IN [i \in 1..Len(folderDisciplines) |->
               IF HasCount(item)
               THEN [disciplineId |-> folderDisciplines[i].id,
                     subjectsCount |-> item.subjectsCount]
               ELSE [disciplineId |-> folderDisciplines[i].id]]
    ELSE IF Field(item, "disciplineId") # "" THEN <<item>>
    ELSE IF Field(item, "simuladoId") # "" THEN <<item>>
    ELSE <<>>

RECURSIVE ExpandAll(_, _)
ExpandAll(items, pl) ==
    IF items = <<>> THEN <<>> ELSE ExpandOne(Head(items), pl) \o ExpandAll(Tail(items), pl)

expandCycleItems(cycle, pl) == ExpandAll(cycle.items, pl)

\* mutation of isSimuladoCompleted: no attempt ever matches
isSimuladoCompleted_Never(simuladoId, attempts) == FALSE

isSimuladoCompleted(simuladoId, attempts) ==
    \E i \in 1..Len(attempts) : attempts[i].simuladoId = simuladoId

\* the external duration rule of '../constants': one table entry per level
calculateGoalDuration(goal, level) == goal.minutes[level]

\* mutation of ResolveDuration: the rule's value is taken as it is
ResolveDuration_NoFloor(goal, level) == calculateGoalDuration(goal, level)

\* lines 857-859: the rule's value with the zero floor
ResolveDuration(goal, level) ==
    LET d0 == calculateGoalDuration(goal, level)
        d1 == IF d0 = 0 /\ goal.type # "AULA" THEN 15 ELSE d0
    IN IF d1 = 0 THEN 30 ELSE d1

\* lines 710-711: the goal record gains (or has overwritten) two fields
Annotate(g, s, d) ==
    [f \in DOMAIN g \cup {"subjectName", "disciplineName"} |->
        IF f = "subjectName" THEN s.name
        ELSE IF f = "disciplineName" THEN d.name
        ELSE g[f]]

AnnotateSubject(s, d) ==
    [s EXCEPT !.goals = [i \in 1..Len(s.goals) |-> Annotate(s.goals[i], s, d)]]

AnnotateDiscipline(d) ==
    [d EXCEPT !.subjects = [i \in 1..Len(d.subjects) |-> AnnotateSubject(d.subjects[i], d)]]

\* the plan as generateSchedule leaves it (its goal objects are annotated in place)
AnnotatePlan(pl) ==
    [pl EXCEPT !.disciplines =
        [i \in 1..Len(pl.disciplines) |-> AnnotateDiscipline(pl.disciplines[i])]]

RECURSIVE ConcatGoals(_)
ConcatGoals(subjects) ==
    IF subjects = <<>> THEN <<>>
    ELSE SortByOrder(Head(subjects).goals) \o ConcatGoals(Tail(subjects))

\* lines 705-714: the flattened queue of one (annotated) discipline
FlatGoals(d) == ConcatGoals(SortByOrder(d.subjects))

DisciplineIds(pl) == {pl.disciplines[i].id : i \in 1..Len(pl.disciplines)}

\* lines 703-716 (a later discipline with the same id overwrites an earlier one)
BuildQueues(pl) ==
    [id \in DisciplineIds(pl) |->
        LET last == CHOOSE i \in 1..Len(pl.disciplines) :
                        /\ pl.disciplines[i].id = id
                        /\ \A j \in (i + 1)..Len(pl.disciplines) : pl.disciplines[j].id # id
        IN FlatGoals(pl.disciplines[last])]

\* mutation of InitPointers: the pointer table outlives the invocation
InitPointers_Stale(pl) ==
    IF DOMAIN disciplinePointers = DisciplineIds(pl) THEN disciplinePointers
    ELSE [id \in DisciplineIds(pl) |-> 0]

\* lines 718-719
InitPointers(pl) == [id \in DisciplineIds(pl) |-> 0]

\* mutation of ItemExhausted: an exam item never keeps a cycle open
ItemExhausted_ExamsDone(item, ptrs, queues, attempts) ==
    IF Field(item, "simuladoId") # "" THEN TRUE
    ELSE IF Field(item, "disciplineId") # "" THEN
        /\ item.disciplineId \in DOMAIN ptrs
        /\ ptrs[item.disciplineId] >=
              (IF item.disciplineId \in DOMAIN queues THEN Len(queues[item.disciplineId]) ELSE 0)
    ELSE TRUE

\* mutation of ItemExhausted: a discipline without pointer counts as exhausted
ItemExhausted_MissingIsDone(item, ptrs, queues, attempts) ==
    IF Field(item, "simuladoId") # "" THEN isSimuladoCompleted(item.simuladoId, attempts)
    ELSE IF Field(item, "disciplineId") # "" THEN
        IF item.disciplineId \in DOMAIN ptrs
        THEN ptrs[item.disciplineId] >=
                (IF item.disciplineId \in DOMAIN queues THEN Len(queues[item.disciplineId])
                 ELSE 0)
        ELSE TRUE
    ELSE TRUE

\* lines 726-734, one item: ptr >= (queue ? queue.length : 0); an undefined ptr
\* compares false
ItemExhausted(item, ptrs, queues, attempts) ==
    IF Field(item, "simuladoId") # "" THEN isSimuladoCompleted(item.simuladoId, attempts)
    ELSE IF Field(item, "disciplineId") # "" THEN
        /\ item.disciplineId \in DOMAIN ptrs
        /\ ptrs[item.disciplineId] >=
              (IF item.disciplineId \in DOMAIN queues THEN Len(queues[item.disciplineId]) ELSE 0)
    ELSE TRUE

isCycleExhausted(cIndex, pl, ptrs, queues, attempts) ==
    IF cIndex < 0 \/ cIndex >= Len(pl.cycles) THEN TRUE
    ELSE LET items == expandCycleItems(pl.cycles[cIndex + 1], pl)
         IN \A i \in 1..Len(items) : ItemExhausted(items[i], ptrs, queues, attempts)

\* lines 741-745: continuous mode skips the cycles already exhausted at the start
RECURSIVE SkipExhausted(_, _, _, _, _)
SkipExhausted(c, pl, ptrs, queues, attempts) ==
    IF c < Len(pl.cycles) /\ isCycleExhausted(c, pl, ptrs, queues, attempts)
    THEN SkipExhausted(c + 1, pl, ptrs, queues, attempts)
    ELSE c

\* line 700: plan.cycleSystem || 'continuo'
CycleSystemOf(pl) == IF Field(pl, "cycleSystem") # "" THEN pl.cycleSystem ELSE "continuo"

\* mutation of InitialCycleIndex: no cycle is skipped at the start
InitialCycleIndex_NoSkip(pl, ptrs, queues, attempts) == 0

\* mutation of InitialCycleIndex: the skip is done in every mode
InitialCycleIndex_AnyMode(pl, ptrs, queues, attempts) ==
    SkipExhausted(0, pl, ptrs, queues, attempts)

\* lines 737-745
InitialCycleIndex(pl, ptrs, queues, attempts) ==
    IF CycleSystemOf(pl) = "continuo" THEN SkipExhausted(0, pl, ptrs, queues, attempts) ELSE 0

\* ------------------------------------------------------------------ inputs
Levels == {"iniciante", "avancado"}

Goal(id, type, order, mi, ma) ==
    [id |-> id, type |-> type, order |-> order,
     minutes |-> [iniciante |-> mi, avancado |-> ma]]

\* "Matematica": one subject, three lessons of 30 minutes (stored out of order)
Matematica ==
    [id |-> "D1", name |-> "Matematica", order |-> 2, folderId |-> "F1",
     subjects |-> << [name |-> "A", order |-> 1,
                      goals |-> << Goal("g2", "AULA", 2, 30, 30),
                                   Goal("g1", "AULA", 1, 30, 30),
                                   Goal("g3", "AULA", 3, 30, 30) >>] >>]

\* the same goals over two subjects
MatematicaTwoSubjects ==
    [id |-> "D1", name |-> "Matematica", order |-> 2, folderId |-> "F1",
     subjects |-> << [name |-> "B", order |-> 2,
                      goals |-> << Goal("g3", "AULA", 3, 30, 30) >>],
                     [name |-> "A", order |-> 1,
                      goals |-> << Goal("g2", "AULA", 2, 30, 30),
                                   Goal("g1", "AULA", 1, 30, 30) >>] >>]

\* "Direito": a 90-minute lesson, then a zero-duration material of another subject
Direito ==
    [id |-> "D2", name |-> "Direito", order |-> 1, folderId |-> "F1",
     subjects |-> << [name |-> "C", order |-> 1,
                      goals |-> << Goal("g4", "AULA", 1, 90, 0) >>],
                     [name |-> "E", order |-> 2,
                      goals |-> << Goal("g5", "MATERIAL", 1, 0, 0) >>] >>]

\* "Vazia": a discipline without subjects (its queue is empty)
Vazia == [id |-> "D3", name |-> "Vazia", order |-> 3, folderId |-> "F2", subjects |-> <<>>]

\* "Portugues": two subjects that bear the same name, then one without a name
Portugues ==
    [id |-> "D4", name |-> "Portugues", order |-> 4, folderId |-> "F2",
     subjects |-> << [name |-> "R", order |-> 1,
                      goals |-> << Goal("g6", "AULA", 1, 15, 15) >>],
                     [name |-> "R", order |-> 2,
                      goals |-> << Goal("g7", "AULA", 1, 15, 15) >>],
                     [name |-> "", order |-> 3,
                      goals |-> << Goal("g8", "AULA", 1, 15, 15),
                                   Goal("g9", "AULA", 2, 15, 15) >>] >>]

DisciplineSets == { <<Matematica, Direito>>, <<MatematicaTwoSubjects, Direito>> }

GoalIds == {"g1", "g2", "g3", "g4", "g5"}

\* the exam catalog: one exam of 10 questions; "SX" is in no catalog
Catalog == << [id |-> "S1", title |-> "Simulado 1", totalQuestions |-> 10] >>

\* cycle items: disciplines with a subject target, a folder, exams, and the
\* malformed ones (unknown discipline, unknown exam, target 0, target missing)
ItemD1 == [disciplineId |-> "D1", subjectsCount |-> 1]
ItemD1x2 == [disciplineId |-> "D1", subjectsCount |-> 2]
ItemD2 == [disciplineId |-> "D2", subjectsCount |-> 1]
ItemD2x2 == [disciplineId |-> "D2", subjectsCount |-> 2]
ItemFolder == [folderId |-> "F1", subjectsCount |-> 1]
ItemFolderF2 == [folderId |-> "F2", subjectsCount |-> 2]
ItemFolderNoTarget == [folderId |-> "F1"]
ItemEmptyFolder == [folderId |-> "F9", subjectsCount |-> 1]
ItemExam == [simuladoId |-> "S1"]
ItemD3 == [disciplineId |-> "D3", subjectsCount |-> 1]
ItemD4x2 == [disciplineId |-> "D4", subjectsCount |-> 2]
ItemUnknownDiscipline == [disciplineId |-> "DX", subjectsCount |-> 1]
ItemUnknownExam == [simuladoId |-> "SX"]
ItemZeroTarget == [disciplineId |-> "D1", subjectsCount |-> 0]
ItemNoTarget == [disciplineId |-> "D1"]

WellFormedItems == {ItemD1, ItemD1x2, ItemD2, ItemD2x2, ItemFolder, ItemExam}
MalformedItems == {ItemUnknownDiscipline, ItemUnknownExam, ItemZeroTarget, ItemNoTarget}
CycleItems == WellFormedItems \cup MalformedItems

ItemLists(S) == {<<>>} \cup {<<a>> : a \in S} \cup {<<a, b>> : a \in S, b \in S}

CycleIdOf == <<"C1", "C2", "C3">>

MkCycles(lists) == [i \in 1..Len(lists) |-> [id |-> CycleIdOf[i], items |-> lists[i]]]

\* one cycle of up to two items, or two cycles of up to one item each ...
SmallCycleLists(S) ==
    {<<l>> : l \in ItemLists(S)}
    \cup {<<<<a>>, <<b>>>> : a \in S, b \in S}
\* ... and the plans with two items in the first of two cycles
WideCycleLists ==
    {<<<<a, b>>, <<c>>>> : a \in {ItemD1, ItemExam}, b \in {ItemD2, ItemExam},
                           c \in {ItemD1, ItemD2x2, ItemExam}}

Routines ==
    { [days |-> [segunda |-> 0, quarta |-> 0]],
      [days |-> [segunda |-> 60]],
      [days |-> [segunda |-> 120, quarta |-> 30]] }

CompletedSets == { {}, {"g1"}, {"g2", "g4"}, {"g1", "g2", "g3"}, GoalIds }

AttemptLists == { <<>>, << [simuladoId |-> "S1"] >> }

\* a Monday and a Tuesday
StartDates == {8, 9}

\* hours ahead of UTC of the machine that runs the scheduler
UtcOffsets == {0 - 3, 1}

Input(ds, cl, sys, rt, sd, done, lvl, paused, att, tz) ==
    [plan |-> [disciplines |-> ds, cycles |-> MkCycles(cl), cycleSystem |-> sys],
     routine |-> rt, startDateStr |-> sd, completedGoals |-> done, userLevel |-> lvl,
     isPaused |-> paused, userAttempts |-> att, utcOffset |-> tz]

Systems == {"continuo", "rotativo"}

\* every shape of cycle list, on a fresh learner
StructureInputs ==
    { Input(<<Matematica, Direito>>, cl, sys, rt, 8, {}, "iniciante", FALSE, <<>>, 0 - 3) :
        cl \in SmallCycleLists(CycleItems) \cup WideCycleLists \cup {<<>>},
        sys \in Systems, rt \in Routines }

\* every progress, level, pause flag and time zone, on well-formed plans
ProgressCycleLists ==
    { <<<<ItemD1>>>>, <<<<ItemD1x2, ItemExam>>>>, <<<<ItemD1>>, <<ItemD2x2>>>>,
      <<<<ItemExam, ItemD2>>, <<ItemD1>>>> }

ProgressInputs ==
    { Input(ds, cl, sys, rt, sd, done, lvl, paused, att, tz) :
        ds \in DisciplineSets, cl \in ProgressCycleLists, sys \in Systems,
        rt \in Routines, sd \in StartDates, done \in CompletedSets, lvl \in Levels,
        paused \in BOOLEAN, att \in AttemptLists, tz \in UtcOffsets }

\* a plan that names no cycle system
DefaultSystemInputs ==
    { Input(<<Matematica, Direito>>, <<<<ItemD1>>, <<ItemD2>>>>, "", rt, 8, done,
            "iniciante", FALSE, <<>>, 0 - 3) :
        rt \in Routines, done \in CompletedSets }

\* a first cycle that is exhausted before anything is scheduled (no item, an
\* attempted exam, a discipline without goals), followed by a second cycle
ExhaustedFirstCycleLists ==
    { <<<<>>, <<ItemD1>>>>, <<<<ItemExam>>, <<ItemD1x2>>>>,
      <<<<ItemD3, ItemExam>>, <<ItemD2, ItemD1>>>>, <<<<ItemD3>>, <<ItemExam>>>> }

ExhaustedFirstInputs ==
    { Input(<<Matematica, Direito, Vazia>>, cl, sys, rt, 8, done, "iniciante", FALSE,
            att, 0 - 3) :
        cl \in ExhaustedFirstCycleLists, sys \in Systems, rt \in Routines,
        done \in {{}, {"g1"}}, att \in AttemptLists }

\* a plan of one discipline and one cycle, 60 minutes on the start's weekday
SingleDisciplineInputs ==
    { Input(<<Matematica>>, <<<<ItemD1>>>>, "continuo", [days |-> [segunda |-> 60]], 8,
            {}, lvl, FALSE, <<>>, tz) :
        lvl \in Levels, tz \in UtcOffsets }

\* plans of three cycles
ThreeCycleInputs ==
    { Input(<<Matematica, Direito>>, cl, sys, rt, 8, done, lvl, FALSE, <<>>, 0 - 3) :
        cl \in { <<<<ItemD1>>, <<ItemD2>>, <<ItemD1>>>>, <<<<ItemD1>>, <<>>, <<ItemExam>>>> },
        sys \in Systems, rt \in Routines, done \in {{}, {"g1"}}, lvl \in Levels }

\* visits of two subjects over subjects told apart by position only
SubjectNameInputs ==
    { Input(<<Matematica, Portugues>>, cl, sys, rt, 8, done, "iniciante", FALSE, <<>>,
            0 - 3) :
        cl \in { <<<<ItemD4x2>>>>, <<<<ItemD4x2, ItemD1>>>> },
        sys \in Systems, rt \in Routines, done \in {{}, {"g7"}, {"g8"}} }

\* folders: one that holds no discipline, one without a target, one whose
\* disciplines are stored in their order
FolderInputs ==
    { Input(<<Matematica, Direito, Vazia, Portugues>>, cl, sys, rt, 8, {}, "iniciante",
            FALSE, <<>>, 0 - 3) :
        cl \in { <<<<ItemEmptyFolder, ItemD1>>>>, <<<<ItemFolderNoTarget>>>>,
                 <<<<ItemFolder, ItemExam, ItemEmptyFolder>>>>, <<<<ItemFolderF2>>>>,
                 <<<<ItemEmptyFolder>>, <<ItemFolder>>>> },
        sys \in Systems, rt \in Routines }

\* a first cycle of a discipline and a dangling item, followed by a second cycle
DanglingInputs ==
    { Input(<<Matematica, Direito>>, cl, sys, [days |-> [segunda |-> 120, quarta |-> 30]],
            8, {}, "iniciante", FALSE, <<>>, 0 - 3) :
        cl \in { <<<<ItemD2x2, ItemUnknownDiscipline>>, <<ItemD1>>>>,
                 <<<<ItemD2x2, ItemUnknownExam>>, <<ItemD1>>>> },
        sys \in Systems }

Inputs == StructureInputs \cup ProgressInputs \cup DefaultSystemInputs \cup FolderInputs
            \cup ExhaustedFirstInputs \cup SingleDisciplineInputs \cup ThreeCycleInputs
            \cup SubjectNameInputs \cup DanglingInputs

EmptyMap == [x \in {} |-> <<>>]

\* every goal done, with and without an attempt at the exam
DrainedInputs ==
    { Input(ds, cl, sys, rt, 8, GoalIds, "iniciante", FALSE, att, 0 - 3) :
        ds \in DisciplineSets, cl \in ProgressCycleLists, sys \in Systems,
        rt \in Routines, att \in AttemptLists }

InitScheduler(S) ==
    /\ \E in \in S :
        /\ plan = in.plan
        /\ routine = in.routine
        /\ startDateStr = in.startDateStr
        /\ completedGoals = in.completedGoals
        /\ userLevel = in.userLevel
        /\ isPaused = in.isPaused
        /\ userAttempts = in.userAttempts
        /\ utcOffset = in.utcOffset
    /\ allSimulados = Catalog
    /\ pc = "start"
    /\ schedule = EmptyMap
    /\ disciplineQueues = EmptyMap
    /\ disciplinePointers = EmptyMap
    /\ currentCycleIndex = 0
    /\ currentItemIndex = 0
    /\ dayOffset = 0
    /\ dateStr = 0
    /\ minutesAvailable = 0
    /\ dayItems = <<>>
    /\ itemsProcessedToday = 0
    /\ safetyLoop = 0
    /\ scheduledInThisSlot = 0
    /\ lastSubName = ""
    /\ processedSomething = FALSE
    /\ placedInVisit = 0
    /\ runs = 1
    /\ firstSchedule = EmptyMap
    /\ refs = [completed |-> 0, attempts |-> 0, planConfigs |-> 0, routine |-> 0]
    /\ effectDeps = [completed |-> 0, attempts |-> 0, planConfigs |-> 0, routine |-> 0,
                     level |-> userLevel]
    /\ ranWith = [completedGoals |-> completedGoals, userAttempts |-> userAttempts,
                  isPaused |-> isPaused, routine |-> routine, userLevel |-> userLevel]
    /\ edits = 0

\* the ids of the plans the user may study, in the order they are loaded
PlanIds == <<"P1", "P2", "P3">>

\* a user who has configured no plan: the dashboard shows the first plan
AccountAtMount ==
    /\ planConfigs = [p \in {PlanIds[k] : k \in 1..Len(PlanIds)} |-> <<>>]
    /\ currentPlanId = ""
    /\ currentPlan = PlanIds[1]

\* no deck is open
ViewerClosed ==
    /\ flashcards = <<>>
    /\ currentIndex = 0
    /\ timers = <<>>

InitWith(S) ==
    /\ InitScheduler(S)
    /\ AccountAtMount
    /\ ViewerClosed

Init == InitWith(Inputs)

\* --------------------------------------------------- lines 688-745: set-up
\* mutation of EarlyExit: the pause flag is not looked at
EarlyExit_IgnoresPause == Len(plan.cycles) = 0 \/ ~hasAvailability(routine)

\* mutation of EarlyExit: only the pause flag is looked at
EarlyExit_OnlyPause == isPaused

\* lines 690-694
EarlyExit == isPaused \/ Len(plan.cycles) = 0 \/ ~hasAvailability(routine)

ReturnEmpty ==
    /\ pc = "start"
    /\ EarlyExit
    /\ pc' = "done"
    /\ schedule' = EmptyMap
    /\ UNCHANGED <<plan, args, disciplineQueues, disciplinePointers, cursors,
                   dayVars, visitVars, caller>>

Begin ==
    /\ pc = "start"
    /\ ~EarlyExit
    /\ plan' = AnnotatePlan(plan)
    /\ disciplineQueues' = BuildQueues(plan')
    /\ disciplinePointers' = InitPointers(plan)
    /\ currentCycleIndex' =
          InitialCycleIndex(plan, disciplinePointers', disciplineQueues', userAttempts)
    /\ currentItemIndex' = 0
    /\ schedule' = EmptyMap
    /\ dayOffset' = 0
    /\ pc' = "day"
    /\ UNCHANGED <<args, dateStr, minutesAvailable, dayItems, itemsProcessedToday,
                   safetyLoop, visitVars, caller>>

\* ---------------------------------------------- lines 747-759: the day loop
DateOf(offset) == ToISODate(startDateStr + offset, utcOffset)

\* line 756: a day without minutes is skipped
DaySkip ==
    /\ pc = "day"
    /\ dayOffset < MAX_DAYS
    /\ MinutesOf(routine, getDayName(DateOf(dayOffset))) = 0
    /\ dayOffset' = dayOffset + 1
    /\ UNCHANGED <<plan, args, pc, schedule, disciplineQueues, disciplinePointers,
                   cursors, dateStr, minutesAvailable, dayItems, itemsProcessedToday,
                   safetyLoop, visitVars, caller>>

DayStart ==
    /\ pc = "day"
    /\ dayOffset < MAX_DAYS
    /\ MinutesOf(routine, getDayName(DateOf(dayOffset))) # 0
    /\ dateStr' = DateOf(dayOffset)
    /\ minutesAvailable' = MinutesOf(routine, getDayName(dateStr'))
    /\ dayItems' = <<>>
    /\ itemsProcessedToday' = 0
    /\ safetyLoop' = 0
    /\ pc' = "alloc"
    /\ UNCHANGED <<plan, args, schedule, disciplineQueues, disciplinePointers,
                   cursors, dayOffset, visitVars, caller>>

\* mutation of CommitDay: the day is recorded whatever it holds
CommitDay_Always == (dateStr :> dayItems) @@ schedule

\* line 895: if (dayItems.length > 0) schedule[dateStr] = dayItems
CommitDay == IF Len(dayItems) > 0 THEN (dateStr :> dayItems) @@ schedule ELSE schedule

\* line 895 and the for-loop increment
DayEnd ==
    /\ pc = "dayEnd"
    /\ schedule' = CommitDay
    /\ dayOffset' = dayOffset + 1
    /\ dayItems' = <<>>
    /\ minutesAvailable' = 0
    /\ itemsProcessedToday' = 0
    /\ safetyLoop' = 0
    /\ pc' = "day"
    /\ UNCHANGED <<plan, args, disciplineQueues, disciplinePointers, cursors,
                   dateStr, visitVars, caller>>

\* line 897
Return ==
    /\ pc = "day"
    /\ dayOffset >= MAX_DAYS
    /\ pc' = "done"
    /\ UNCHANGED <<plan, args, schedule, disciplineQueues, disciplinePointers,
                   cursors, dayVars, visitVars, caller>>

\* ------------------------------------- lines 761-795: the allocation loop
WhileCond == pc = "alloc" /\ minutesAvailable > 0 /\ safetyLoop < SafetyLimit

\* mutation of CycleIdx: no wrap in any mode
CycleIdx_NoWrap == currentCycleIndex

\* mutation of CycleIdx: the wrap is done in every mode
CycleIdx_AlwaysWrap == IF currentCycleIndex >= Len(plan.cycles) THEN 0 ELSE currentCycleIndex

\* lines 765-771: rotating mode wraps to cycle 0 before the cycle is read
CycleIdx ==
    IF currentCycleIndex >= Len(plan.cycles) /\ CycleSystemOf(plan) = "rotativo"
    THEN 0 ELSE currentCycleIndex

InPlan == CycleIdx < Len(plan.cycles)
cycle == plan.cycles[CycleIdx + 1]
activeItems == expandCycleItems(cycle, plan)
AtItem == InPlan /\ currentItemIndex < Len(activeItems)
cycleItem == activeItems[currentItemIndex + 1]
IsExamItem == Field(cycleItem, "simuladoId") # ""
IsDisciplineItem == ~IsExamItem /\ Field(cycleItem, "disciplineId") # ""

\* mutation of NextSafety: an iteration does not count
NextSafety_Stuck == safetyLoop

\* line 762: safetyLoop++ at the top of every iteration
NextSafety == safetyLoop + 1

\* the while condition fails: fall through to line 895
LoopExit ==
    /\ pc = "alloc"
    /\ ~(minutesAvailable > 0 /\ safetyLoop < SafetyLimit)
    /\ pc' = "dayEnd"
    /\ UNCHANGED <<plan, args, schedule, disciplineQueues, disciplinePointers,
                   cursors, dayVars, visitVars, caller>>

\* line 769: continuous mode, every cycle left behind
PlanFinished ==
    /\ WhileCond
    /\ ~InPlan
    /\ safetyLoop' = NextSafety
    /\ pc' = "dayEnd"
    /\ UNCHANGED <<plan, args, schedule, disciplineQueues, disciplinePointers,
                   cursors, dayOffset, dateStr, minutesAvailable, dayItems,
                   itemsProcessedToday, visitVars, caller>>

\* mutation of NextCycleIndex: the rotating rule in every mode
NextCycleIndex_Always == CycleIdx + 1

\* lines 779-792: past the last item of the cycle
NextCycleIndex ==
    IF CycleSystemOf(plan) = "continuo"
    THEN IF isCycleExhausted(CycleIdx, plan, disciplinePointers, disciplineQueues,
                             userAttempts)
         THEN CycleIdx + 1 ELSE CycleIdx
    ELSE CycleIdx + 1

CycleEnd ==
    /\ WhileCond
    /\ InPlan
    /\ currentItemIndex >= Len(activeItems)
    /\ safetyLoop' = NextSafety
    /\ currentCycleIndex' = NextCycleIndex
    /\ currentItemIndex' = 0
    /\ UNCHANGED <<plan, args, pc, schedule, disciplineQueues, disciplinePointers,
                   dayOffset, dateStr, minutesAvailable, dayItems,
                   itemsProcessedToday, visitVars, caller>>

\* ------------------------------------------------- lines 797-832: an exam
\* mutation of FindSimulado: an unknown id resolves to the first catalog entry
FindSimulado_First(id) == <<allSimulados[1]>>

\* allSimulados.find(s => s.id === cycleItem.simuladoId)
FindSimulado(id) ==
    LET hits == {i \in 1..Len(allSimulados) : allSimulados[i].id = id}
    IN IF hits = {} THEN <<>>
       ELSE <<allSimulados[CHOOSE i \in hits : \A j \in hits : i <= j]>>

\* lines 807-820 (the id is the string date_SIM_examId, kept as a tuple)
ExamItem(simulado) ==
    [uniqueId |-> <<dateStr, "SIM", simulado.id>>,
     date |-> dateStr,
     goalId |-> simulado.id,
     goalType |-> "SIMULADO",
     disciplineName |-> "AVALIACAO",
     subjectName |-> "Questoes",
     duration |-> simulado.totalQuestions * 3]

\* mutation of ExamFits: the 60-minute threshold is dropped
ExamFits_AnyMinutes == itemsProcessedToday = 0 \/ minutesAvailable > 0

\* mutation of ExamFits: only the first item of a day can be an exam
ExamFits_FirstOnly == itemsProcessedToday = 0

\* line 806
ExamFits == itemsProcessedToday = 0 \/ minutesAvailable > 60

\* lines 800-803
ExamSkipCompleted ==
    /\ WhileCond /\ AtItem /\ IsExamItem
    /\ isSimuladoCompleted(cycleItem.simuladoId, userAttempts)
    /\ safetyLoop' = NextSafety
    /\ currentCycleIndex' = CycleIdx
    /\ currentItemIndex' = currentItemIndex + 1
    /\ UNCHANGED <<plan, args, pc, schedule, disciplineQueues, disciplinePointers,
                   dayOffset, dateStr, minutesAvailable, dayItems,
                   itemsProcessedToday, visitVars, caller>>

\* lines 828-830: the exam is in no catalog
ExamSkipUnknown ==
    /\ WhileCond /\ AtItem /\ IsExamItem
    /\ ~isSimuladoCompleted(cycleItem.simuladoId, userAttempts)
    /\ FindSimulado(cycleItem.simuladoId) = <<>>
    /\ safetyLoop' = NextSafety
    /\ currentCycleIndex' = CycleIdx
    /\ currentItemIndex' = currentItemIndex + 1
    /\ UNCHANGED <<plan, args, pc, schedule, disciplineQueues, disciplinePointers,
                   dayOffset, dateStr, minutesAvailable, dayItems,
                   itemsProcessedToday, visitVars, caller>>

\* lines 806-823
ExamPlace ==
    /\ WhileCond /\ AtItem /\ IsExamItem
    /\ ~isSimuladoCompleted(cycleItem.simuladoId, userAttempts)
    /\ FindSimulado(cycleItem.simuladoId) # <<>>
    /\ ExamFits
    /\ safetyLoop' = NextSafety
    /\ dayItems' = Append(dayItems, ExamItem(FindSimulado(cycleItem.simuladoId)[1]))
    /\ minutesAvailable' = 0
    /\ itemsProcessedToday' = itemsProcessedToday + 1
    /\ currentCycleIndex' = CycleIdx
    /\ currentItemIndex' = currentItemIndex + 1
    /\ UNCHANGED <<plan, args, pc, schedule, disciplineQueues, disciplinePointers,
                   dayOffset, dateStr, visitVars, caller>>

\* lines 824-827: the exam waits for another day
ExamDefer ==
    /\ WhileCond /\ AtItem /\ IsExamItem
    /\ ~isSimuladoCompleted(cycleItem.simuladoId, userAttempts)
    /\ FindSimulado(cycleItem.simuladoId) # <<>>
    /\ ~ExamFits
    /\ safetyLoop' = NextSafety
    /\ minutesAvailable' = 0
    /\ currentCycleIndex' = CycleIdx
    /\ pc' = "dayEnd"
    /\ UNCHANGED <<plan, args, schedule, disciplineQueues, disciplinePointers,
                   currentItemIndex, dayOffset, dateStr, dayItems,
                   itemsProcessedToday, visitVars, caller>>

\* -------------------------------------------- lines 835-893: a discipline
HasQueue(id) == id \in DOMAIN disciplineQueues
queue == disciplineQueues[cycleItem.disciplineId]
pointer == disciplinePointers[cycleItem.disciplineId]

\* line 839
QueueDrained == IF HasQueue(cycleItem.disciplineId) THEN pointer >= Len(queue) ELSE TRUE

\* lines 839-842
DisciplineSkip ==
    /\ WhileCond /\ AtItem /\ IsDisciplineItem
    /\ QueueDrained
    /\ safetyLoop' = NextSafety
    /\ currentCycleIndex' = CycleIdx
    /\ currentItemIndex' = currentItemIndex + 1
    /\ UNCHANGED <<plan, args, pc, schedule, disciplineQueues, disciplinePointers,
                   dayOffset, dateStr, minutesAvailable, dayItems,
                   itemsProcessedToday, visitVars, caller>>

\* lines 844-846
VisitStart ==
    /\ WhileCond /\ AtItem /\ IsDisciplineItem
    /\ ~QueueDrained
    /\ safetyLoop' = NextSafety
    /\ currentCycleIndex' = CycleIdx
    /\ scheduledInThisSlot' = 0
    /\ lastSubName' = ""
    /\ processedSomething' = FALSE
    /\ placedInVisit' = 0
    /\ pc' = "visit"
    /\ UNCHANGED <<plan, args, schedule, disciplineQueues, disciplinePointers,
                   currentItemIndex, dayOffset, dateStr, minutesAvailable, dayItems,
                   itemsProcessedToday, caller>>

\* line 848
VisitCond ==
    /\ pc = "visit"
    /\ JsLt(scheduledInThisSlot, cycleItem)
    /\ pointer < Len(queue)

goal == queue[pointer + 1]

\* mutation of IsCompleted: the completion check never matches
IsCompleted_Never(g) == FALSE

\* line 851: completedGoals.includes(goal.id)
IsCompleted(g) == g.id \in completedGoals

\* line 861: lastSubName && goal._subjectName === lastSubName
isSameSub == lastSubName # "" /\ goal.subjectName = lastSubName

\* mutation of GoalFits: no exemption for the first item of the day
GoalFits_BudgetOnly == minutesAvailable >= ResolveDuration(goal, userLevel)

\* mutation of GoalFits: a goal as long as the remaining minutes does not fit
GoalFits_Strict == minutesAvailable > ResolveDuration(goal, userLevel) \/ itemsProcessedToday = 0

\* mutation of GoalFits: every goal fits
GoalFits_Always == TRUE

\* line 863
GoalFits == minutesAvailable >= ResolveDuration(goal, userLevel) \/ itemsProcessedToday = 0

\* lines 864-870 (the id is the string date_cycleId_disciplineId_goalId, kept
\* as a tuple)
GoalItem ==
    [uniqueId |-> <<dateStr, cycle.id, cycleItem.disciplineId, goal.id>>,
     date |-> dateStr,
     goalId |-> goal.id,
     goalType |-> goal.type,
     disciplineName |-> IF goal.disciplineName # "" THEN goal.disciplineName ELSE "Disciplina",
     subjectName |-> IF goal.subjectName # "" THEN goal.subjectName ELSE "Assunto",
     duration |-> ResolveDuration(goal, userLevel)]

\* mutation of NextPointer: a placed goal does not move the pointer
NextPointer_Stuck == pointer

\* mutation of NextPointer: the pointer starts over at the end of the queue
NextPointer_Wraps == IF pointer + 1 >= Len(queue) THEN 0 ELSE pointer + 1

\* lines 880-881: pointer++ after a placement
NextPointer == pointer + 1

\* mutation of SkipPointer: the goal after a completed one is skipped as well
SkipPointer_Two == pointer + 2

\* lines 852-853: pointer++ over a completed goal
SkipPointer == pointer + 1

\* lines 851-855
VisitSkipCompleted ==
    /\ VisitCond
    /\ IsCompleted(goal)
    /\ disciplinePointers' =
          [disciplinePointers EXCEPT ![cycleItem.disciplineId] = SkipPointer]
    /\ UNCHANGED <<plan, args, pc, schedule, disciplineQueues, cursors, dayVars,
                   visitVars, caller>>

\* lines 863-881
VisitPlace ==
    /\ VisitCond
    /\ ~IsCompleted(goal)
    /\ GoalFits
    /\ dayItems' = Append(dayItems, GoalItem)
    /\ scheduledInThisSlot' = IF isSameSub THEN scheduledInThisSlot
                                           ELSE scheduledInThisSlot + 1
    /\ lastSubName' = IF isSameSub THEN lastSubName ELSE goal.subjectName
    /\ minutesAvailable' = minutesAvailable - ResolveDuration(goal, userLevel)
    /\ itemsProcessedToday' = itemsProcessedToday + 1
    /\ processedSomething' = TRUE
    /\ placedInVisit' = placedInVisit + 1
    /\ disciplinePointers' =
          [disciplinePointers EXCEPT ![cycleItem.disciplineId] = NextPointer]
    /\ UNCHANGED <<plan, args, pc, schedule, disciplineQueues, cursors, dayOffset,
                   dateStr, safetyLoop, caller>>

\* lines 882-885, then 888-892 and the while test of line 761: the goal does
\* not fit, minutes drop to 0, and both ways out lead to line 895
VisitReject ==
    /\ VisitCond
    /\ ~IsCompleted(goal)
    /\ ~GoalFits
    /\ minutesAvailable' = 0
    /\ scheduledInThisSlot' = 0
    /\ lastSubName' = ""
    /\ processedSomething' = FALSE
    /\ placedInVisit' = 0
    /\ pc' = "dayEnd"
    /\ UNCHANGED <<plan, args, schedule, disciplineQueues, disciplinePointers,
                   cursors, dayOffset, dateStr, dayItems, itemsProcessedToday,
                   safetyLoop, caller>>

\* mutation of VisitComplete: every visit that ends moves on to the next item
VisitComplete_Always == TRUE

\* line 888
VisitComplete == JsGe(scheduledInThisSlot, cycleItem) \/ pointer >= Len(queue)

\* lines 888-892, reached when the inner while test fails
VisitEnd ==
    /\ pc = "visit"
    /\ ~(JsLt(scheduledInThisSlot, cycleItem) /\ pointer < Len(queue))
    /\ currentItemIndex' = IF VisitComplete THEN currentItemIndex + 1 ELSE currentItemIndex
    /\ pc' = IF ~VisitComplete /\ ~processedSomething /\ minutesAvailable <= 0
             THEN "dayEnd" ELSE "alloc"
    /\ scheduledInThisSlot' = 0
    /\ lastSubName' = ""
    /\ processedSomething' = FALSE
    /\ placedInVisit' = 0
    /\ UNCHANGED <<plan, args, schedule, disciplineQueues, disciplinePointers,
                   currentCycleIndex, dayVars, caller>>

\* ------------------------------------------------------------ specification
Next ==
    \/ ReturnEmpty
    \/ Begin
    \/ DaySkip
    \/ DayStart
    \/ DayEnd
    \/ Return
    \/ LoopExit
    \/ PlanFinished
    \/ CycleEnd
    \/ ExamSkipCompleted
    \/ ExamSkipUnknown
    \/ ExamPlace
    \/ ExamDefer
    \/ DisciplineSkip
    \/ VisitStart
    \/ VisitSkipCompleted
    \/ VisitPlace
    \/ VisitReject
    \/ VisitEnd

Spec == Init /\ [][Next]_vars

\* lines 939-947: the dashboard's effect stores the result and, when it fires
\* again, calls generateSchedule once more on the same (already used) objects
Rerun ==
    /\ pc = "done"
    /\ runs = 1
    /\ firstSchedule' = schedule
    /\ runs' = runs + 1
    /\ pc' = "start"
    /\ UNCHANGED <<plan, args, schedule, disciplineQueues, disciplinePointers,
                   cursors, dayVars, visitVars, refs, effectDeps, ranWith, edits,
                   account, viewer>>

NextRerun == Next \/ Rerun

SpecRerun == Init /\ [][NextRerun]_vars

\* a call runs to its return: the single thread of the run keeps taking steps
SpecFair == InitWith(StructureInputs \cup DrainedInputs) /\ [][Next]_vars /\ WF_vars(Next)

\* ================================================================== claims
\* the lists of items produced so far: the committed days and the day in progress
DayLists == {schedule[d] : d \in DOMAIN schedule} \cup {dayItems}

IsExam(item) == item.goalType = "SIMULADO"

RECURSIVE SumDuration(_)
SumDuration(l) == IF l = <<>> THEN 0 ELSE Head(l).duration + SumDuration(Tail(l))

\* the goals of a queue that the pointer has passed
Passed(id) == {disciplineQueues[id][k] : k \in 1..disciplinePointers[id]}
\* the goals of a queue at or after the pointer
Ahead(id) ==
    {disciplineQueues[id][k] :
        k \in (disciplinePointers[id] + 1)..Len(disciplineQueues[id])}

\* C1 -- completed-goal exclusion: no goal item, on any date (nor in the day
\* being filled), carries the id of a goal contained in completedGoals.
C1_CompletedGoalExclusion ==
    \A l \in DayLists : \A i \in 1..Len(l) :
        ~IsExam(l[i]) => l[i].goalId \notin completedGoals

\* a finished run that passed a completed goal and scheduled a later goal of
\* the same discipline
C1_Witness ==
    /\ pc = "done"
    /\ \E id \in DOMAIN disciplineQueues :
        /\ \E g \in Passed(id) : g.id \in completedGoals
        /\ \E d \in DOMAIN schedule : \E i \in 1..Len(schedule[d]) :
              \E g \in Passed(id) : schedule[d][i].goalId = g.id

\* C2 (as stated) -- exam exclusivity: every date whose list contains an exam
\* item contains exactly one item in total.
C2_ExamExclusive ==
    pc = "done" =>
        \A d \in DOMAIN schedule :
            (\E i \in 1..Len(schedule[d]) : IsExam(schedule[d][i]))
                => Len(schedule[d]) = 1

\* C2 (amended) -- an exam item is always the last item of its date (so a date
\* holds at most one exam and nothing after it); goal items precede it only
\* when more than 60 of the day's minutes were left after them.
C2_ExamLast ==
    \A d \in DOMAIN schedule : \A i \in 1..Len(schedule[d]) :
        IsExam(schedule[d][i]) =>
            /\ i = Len(schedule[d])
            /\ i > 1 => MinutesOf(routine, getDayName(d))
                           - SumDuration(SubSeq(schedule[d], 1, i - 1)) > 60

\* a date on which goals were placed and then the exam
C2_Witness ==
    \E d \in DOMAIN schedule :
        /\ Len(schedule[d]) >= 2
        /\ IsExam(schedule[d][Len(schedule[d])])
        /\ ~IsExam(schedule[d][1])

\* content that is still to be scheduled: an uncompleted goal at or after its
\* discipline's pointer, or a catalog exam named by a cycle and never attempted
GoalsRemain ==
    \E id \in DOMAIN disciplineQueues : \E g \in Ahead(id) : g.id \notin completedGoals

AllExpandedItems ==
    UNION { {expandCycleItems(plan.cycles[c], plan)[i] :
                i \in 1..Len(expandCycleItems(plan.cycles[c], plan))} :
            c \in 1..Len(plan.cycles) }

InCatalog(id) == \E i \in 1..Len(allSimulados) : allSimulados[i].id = id
Attempted(id) == \E i \in 1..Len(userAttempts) : userAttempts[i].simuladoId = id

ExamsRemain ==
    \E it \in AllExpandedItems :
        /\ Field(it, "simuladoId") # ""
        /\ InCatalog(it.simuladoId)
        /\ ~Attempted(it.simuladoId)

Placeable(it) ==
    IF Field(it, "simuladoId") # ""
    THEN InCatalog(it.simuladoId) /\ ~Attempted(it.simuladoId)
    ELSE /\ it.disciplineId \in DOMAIN disciplineQueues
         /\ \E g \in Ahead(it.disciplineId) : g.id \notin completedGoals

\* a cycle item that names a catalog exam, or a plan discipline with a
\* subject target of at least 1
WellFormed(it) ==
    IF Field(it, "simuladoId") # ""
    THEN InCatalog(it.simuladoId)
    ELSE /\ it.disciplineId \in DOMAIN disciplineQueues
         /\ HasCount(it)
         /\ it.subjectsCount >= 1

\* iterations the loop may need before the first placement of a day: the rest
\* of the current cycle, then one pass over every cycle
RECURSIVE PassLength(_)
PassLength(c) ==
    IF c = 0 THEN 0
    ELSE Len(expandCycleItems(plan.cycles[c], plan)) + 1 + PassLength(c - 1)

MaxCycleLength ==
    LET lens == {Len(expandCycleItems(plan.cycles[c], plan)) : c \in 1..Len(plan.cycles)}
    IN IF lens = {} THEN 0 ELSE CHOOSE n \in lens : \A m \in lens : m <= n

WalkLength == PassLength(Len(plan.cycles)) + MaxCycleLength

C4_NoAttemptedExam(lists) ==
    \A l \in lists : \A i \in 1..Len(l) : IsExam(l[i]) => ~Attempted(l[i].goalId)

C4_Step ==
    /\ C4_NoAttemptedExam(DayLists')
    /\ (WhileCond /\ AtItem /\ IsExamItem /\ Attempted(cycleItem.simuladoId))
        => /\ currentItemIndex' = currentItemIndex + 1
           /\ currentCycleIndex' = CycleIdx
           /\ UNCHANGED <<pc, schedule, dayItems, minutesAvailable,
                          itemsProcessedToday, disciplinePointers>>

C4_CompletedExamExclusion == [][C4_Step]_vars

\* the allocation loop has just stepped over an exam that has an attempt
C4_Witness ==
    /\ pc = "alloc"
    /\ InPlan
    /\ currentItemIndex >= 1
    /\ currentItemIndex <= Len(activeItems)
    /\ Field(activeItems[currentItemIndex], "simuladoId") # ""
    /\ Attempted(activeItems[currentItemIndex].simuladoId)
    /\ InCatalog(activeItems[currentItemIndex].simuladoId)

\* C5 -- pause short-circuit: a paused run never enters the day loop and
\* returns the empty mapping, whatever the other inputs are.
C5_PauseShortCircuit ==
    isPaused => /\ pc \in {"start", "done"}
                /\ schedule = EmptyMap
                /\ dayItems = <<>>

\* a paused run has returned on inputs that have cycles, minutes and open goals
C5_Witness ==
    /\ pc = "done"
    /\ isPaused
    /\ Len(plan.cycles) > 0
    /\ \E k \in DOMAIN routine.days : routine.days[k] > 0
    /\ completedGoals = {}

\* C6 -- no availability / no cycles: with 0 minutes on every weekday, or with
\* no cycle, the run never enters the day loop and returns the empty mapping.
C6_NoWorkShortCircuit ==
    (Len(plan.cycles) = 0 \/ \A k \in DOMAIN routine.days : routine.days[k] = 0)
        => /\ pc \in {"start", "done"}
           /\ schedule = EmptyMap
           /\ dayItems = <<>>

\* an unpaused run has returned on a plan with cycles and a routine without minutes
C6_Witness ==
    /\ pc = "done"
    /\ ~isPaused
    /\ Len(plan.cycles) > 0
    /\ \A k \in DOMAIN routine.days : routine.days[k] = 0

\* C7 -- horizon bound: every date of the agenda is the start date plus an
\* offset d with 0 <= d < MAX_DAYS, and every item carries the date it is
\* filed under.
C7_HorizonBound ==
    \A d \in DOMAIN schedule :
        /\ startDateStr <= d
        /\ d < startDateStr + MAX_DAYS
        /\ \A i \in 1..Len(schedule[d]) : schedule[d][i].date = d

C9_UniqueIdsPerDate ==
    \A l \in DayLists : \A i \in 1..Len(l) : \A j \in 1..Len(l) :
        i # j => l[i].uniqueId # l[j].uniqueId

\* a date with two goals of one discipline, in a plan whose cycles name that
\* discipline more than once
C9_Witness ==
    \E d \in DOMAIN schedule : \E i \in 1..Len(schedule[d]) : \E j \in 1..Len(schedule[d]) :
        /\ i # j
        /\ ~IsExam(schedule[d][i])
        /\ schedule[d][i].uniqueId[3] = schedule[d][j].uniqueId[3]
        /\ \E c \in 1..Len(plan.cycles) :
              /\ Len(plan.cycles[c].items) = 2
              /\ Field(plan.cycles[c].items[1], "disciplineId") = schedule[d][i].uniqueId[3]
              /\ Field(plan.cycles[c].items[2], "disciplineId") = schedule[d][i].uniqueId[3]

\* C10 -- pointer monotonicity: set-up puts every pointer at 0; afterwards no
\* step lowers a pointer, and no pointer exceeds the length of its queue.
C10_Step ==
    /\ pc = "start" => \A id \in DOMAIN disciplinePointers' : disciplinePointers'[id] = 0
    /\ pc # "start" =>
        /\ DOMAIN disciplinePointers' = DOMAIN disciplinePointers
        /\ \A id \in DOMAIN disciplinePointers :
              /\ disciplinePointers[id] <= disciplinePointers'[id]
              /\ disciplinePointers'[id] <= Len(disciplineQueues'[id])

C10_PointerMonotone == [][C10_Step]_vars

\* a pointer has walked to the end of a non-empty queue
C10_Witness ==
    \E id \in DOMAIN disciplinePointers :
        /\ Len(disciplineQueues[id]) > 0
        /\ disciplinePointers[id] = Len(disciplineQueues[id])

\* C11 -- termination: every run returns; a day's allocation loop makes at most
\* SafetyLimit iterations and the day loop at most MAX_DAYS.
C11_Termination ==
    /\ [](safetyLoop <= SafetyLimit /\ dayOffset <= MAX_DAYS)
    /\ <>(pc = "done")

\* a run has returned on a rotating plan without anything left to place, whose
\* allocation loop would otherwise go round the cycles for ever
C11_Witness ==
    /\ pc = "done"
    /\ dayOffset = MAX_DAYS
    /\ CycleSystemOf(plan) = "rotativo"
    /\ hasAvailability(routine)
    /\ Len(plan.cycles) > 0
    /\ \A it \in AllExpandedItems : ~Placeable(it)

\* cycle c (1-based position) is exhausted before anything is scheduled: every
\* expanded item is an attempted exam or a discipline whose queue is empty
ExhaustedAtStart(c) ==
    \A i \in 1..Len(expandCycleItems(plan.cycles[c], plan)) :
        LET it == expandCycleItems(plan.cycles[c], plan)[i]
        IN IF Field(it, "simuladoId") # "" THEN Attempted(it.simuladoId)
           ELSE \E k \in 1..Len(plan.disciplines) :
                    /\ plan.disciplines[k].id = it.disciplineId
                    /\ \A j \in 1..Len(plan.disciplines[k].subjects) :
                           plan.disciplines[k].subjects[j].goals = <<>>

\* the item was placed from cycle c: a goal item carries the cycle's id, an
\* exam item the id of an exam the cycle names
FromCycle(item, c) ==
    IF IsExam(item)
    THEN \E i \in 1..Len(plan.cycles[c].items) :
            Field(plan.cycles[c].items[i], "simuladoId") = item.goalId
    ELSE item.uniqueId[2] = plan.cycles[c].id

ExhaustedFirstCase ==
    /\ Len(plan.cycles) = 2
    /\ ~EarlyExit
    /\ ExhaustedAtStart(1)
    /\ ~ExhaustedAtStart(2)

\* C12 -- rotating vs. continuous: with an exhausted first cycle and a second
\* cycle that has content, a continuous run starts at the second cycle and
\* never stands at the first; a rotating run starts at the first cycle, places
\* nothing while it stands there and goes from it to the second; in both modes
\* every item comes from the second cycle.
C12_Step ==
    ExhaustedFirstCase =>
        /\ \A l \in DayLists' : \A i \in 1..Len(l) : FromCycle(l[i], 2)
        /\ pc = "start" =>
              currentCycleIndex' = IF CycleSystemOf(plan) = "continuo" THEN 1 ELSE 0
        /\ (pc # "start" /\ CycleSystemOf(plan) = "continuo") => currentCycleIndex' >= 1
        /\ (WhileCond /\ CycleSystemOf(plan) = "rotativo" /\ CycleIdx = 0) =>
              /\ dayItems' = dayItems
              /\ currentCycleIndex' \in {0, 1}

C12_ModeDivergence == [][C12_Step]_vars

\* a rotating run has returned an agenda after passing through a first cycle
\* that has items but nothing to place
C12_Witness ==
    /\ pc = "done"
    /\ ExhaustedFirstCase
    /\ CycleSystemOf(plan) = "rotativo"
    /\ Len(plan.cycles[1].items) > 0
    /\ schedule # EmptyMap

\* the goal ids of a list of items
GoalIdsOf(l) == [i \in 1..Len(l) |-> l[i].goalId]

\* the discipline targeted by the only item of the only cycle
ScenarioDiscipline ==
    CHOOSE d \in {plan.disciplines[k] : k \in 1..Len(plan.disciplines)} :
        d.id = plan.cycles[1].items[1].disciplineId

\* one cycle with one item of target 1 on a discipline of one subject with three
\* goals of resolved duration 30, none completed; 60 minutes on exactly one
\* weekday, the start date's; continuous mode
Scenario ==
    /\ ~isPaused
    /\ CycleSystemOf(plan) = "continuo"
    /\ Len(plan.cycles) = 1
    /\ Len(plan.cycles[1].items) = 1
    /\ Field(plan.cycles[1].items[1], "disciplineId") # ""
    /\ \E k \in 1..Len(plan.disciplines) :
           plan.disciplines[k].id = plan.cycles[1].items[1].disciplineId
    /\ HasCount(plan.cycles[1].items[1])
    /\ plan.cycles[1].items[1].subjectsCount = 1
    /\ Len(ScenarioDiscipline.subjects) = 1
    /\ Len(ScenarioDiscipline.subjects[1].goals) = 3
    /\ \A i \in 1..3 :
          /\ ResolveDuration(ScenarioDiscipline.subjects[1].goals[i], userLevel) = 30
          /\ ScenarioDiscipline.subjects[1].goals[i].id \notin completedGoals
    /\ \A k \in DOMAIN routine.days :
          routine.days[k] = IF k = DayMap[(startDateStr % 7) + 1] THEN 60 ELSE 0
    /\ DayMap[(startDateStr % 7) + 1] \in DOMAIN routine.days

\* C13 -- concrete scenario: the returned agenda has goals 1 and 2, in that
\* order, on the start date, goal 3 seven days later, and no other entry.
C13_ConcreteScenario ==
    (pc = "done" /\ Scenario) =>
        LET sorted == SortByOrder(ScenarioDiscipline.subjects[1].goals)
        IN /\ DOMAIN schedule = {startDateStr, startDateStr + 7}
           /\ GoalIdsOf(schedule[startDateStr]) = <<sorted[1].id, sorted[2].id>>
           /\ GoalIdsOf(schedule[startDateStr + 7]) = <<sorted[3].id>>

\* the scenario's run has returned, on a plan that has this one discipline only
C13_Witness ==
    /\ pc = "done"
    /\ Scenario
    /\ Len(plan.disciplines) = 1
    /\ schedule # EmptyMap

\* C14 -- empty days omitted: no date of the agenda maps to an empty list or
\* falls on a weekday without minutes; a day skipped for having no minutes,
\* and a day that ends without an item, has no key.
C14_Step ==
    /\ \A d \in DOMAIN schedule' :
          /\ Len(schedule'[d]) > 0
          /\ MinutesOf(routine, getDayName(d)) > 0
    /\ (pc = "day" /\ dayOffset < MAX_DAYS
           /\ MinutesOf(routine, getDayName(DateOf(dayOffset))) = 0)
        => DateOf(dayOffset) \notin DOMAIN schedule'
    /\ (pc = "dayEnd" /\ dayItems = <<>>) => dateStr \notin DOMAIN schedule'

C14_EmptyDaysOmitted == [][C14_Step]_vars

\* a returned agenda that has entries, and lacks a day that had minutes
C14_Witness ==
    /\ pc = "done"
    /\ schedule # EmptyMap
    /\ \E off \in 0..(MAX_DAYS - 1) :
          /\ MinutesOf(routine, getDayName(DateOf(off))) > 0
          /\ DateOf(off) \notin DOMAIN schedule

\* C15 -- inputs are read-only: no step of a run changes the plan (the fields
\* of its goal records included), the routine, the completed list, the exam
\* catalog or the attempts.
C15_Step ==
    /\ plan' = plan
    /\ routine' = routine
    /\ completedGoals' = completedGoals
    /\ allSimulados' = allSimulados
    /\ userAttempts' = userAttempts

C15_InputsReadOnly == [][C15_Step]_vars

\* a cycle item nothing can be placed from: an exam absent from the catalog, a
\* discipline absent from the plan, or a discipline without goals
Degenerate(it) ==
    IF Field(it, "simuladoId") # "" THEN ~InCatalog(it.simuladoId)
    ELSE \A k \in 1..Len(plan.disciplines) :
            plan.disciplines[k].id = it.disciplineId
                => \A j \in 1..Len(plan.disciplines[k].subjects) :
                       plan.disciplines[k].subjects[j].goals = <<>>

\* the item was placed for cycle item it
PlacedFor(item, it) ==
    IF IsExam(item) THEN Field(it, "simuladoId") = item.goalId
    ELSE Field(it, "disciplineId") = item.uniqueId[3]

\* C16 -- defensive degradation: the iteration that meets a degenerate cycle
\* item only moves currentItemIndex past it and stays in the allocation loop;
\* no item is ever placed for such a cycle item.
C16_Step ==
    /\ (WhileCond /\ AtItem /\ Degenerate(cycleItem)) =>
          /\ currentItemIndex' = currentItemIndex + 1
          /\ currentCycleIndex' = CycleIdx
          /\ pc' = "alloc"
          /\ UNCHANGED <<schedule, dayItems, minutesAvailable, itemsProcessedToday,
                         disciplinePointers>>
    /\ \A l \in DayLists' : \A i \in 1..Len(l) :
          \A it \in AllExpandedItems : Degenerate(it) => ~PlacedFor(l[i], it)

C16_DefensiveDegradation == [][C16_Step]_vars

\* a run has returned an agenda on a plan whose first cycle item is degenerate
C16_Witness ==
    /\ pc = "done"
    /\ schedule # EmptyMap
    /\ Len(plan.cycles) > 0
    /\ Len(plan.cycles[1].items) > 0
    /\ Field(plan.cycles[1].items[1], "folderId") = ""
    /\ Degenerate(plan.cycles[1].items[1])

\* the test as the claim words it: an attempted exam, or a discipline whose
\* pointer has reached the length of its queue, a discipline without a queue
\* counting as length 0 (and so as reached)
SatisfiedAsStated(it) ==
    IF Field(it, "simuladoId") # "" THEN Attempted(it.simuladoId)
    ELSE IF it.disciplineId \in DOMAIN disciplineQueues
         THEN disciplinePointers[it.disciplineId] >= Len(disciplineQueues[it.disciplineId])
         ELSE TRUE

\* C17 -- cycle-exhaustion test: at any moment of the walk, isCycleExhausted(c)
\* is true exactly when every expanded item of cycle c is an attempted exam or
\* a discipline whose live pointer is at or past the end of its queue.
C17_ExhaustionTest ==
    pc \notin {"start", "done"} =>
        \A c \in 1..Len(plan.cycles) :
            isCycleExhausted(c - 1, plan, disciplinePointers, disciplineQueues, userAttempts)
                <=> \A i \in 1..Len(expandCycleItems(plan.cycles[c], plan)) :
                        SatisfiedAsStated(expandCycleItems(plan.cycles[c], plan)[i])

\* the allocation loop stands past the last item of the current cycle
PastLastItem ==
    /\ WhileCond
    /\ currentCycleIndex < Len(plan.cycles)
    /\ currentItemIndex >= Len(expandCycleItems(plan.cycles[currentCycleIndex + 1], plan))

\* C18 -- continuous-mode cycle advance: past the last item of the cycle,
\* currentCycleIndex is incremented exactly when the cycle is exhausted and
\* currentItemIndex becomes 0; no other step of the allocation loop changes
\* currentCycleIndex.
C18_Step ==
    (CycleSystemOf(plan) = "continuo" /\ pc \in {"alloc", "visit"}) =>
        IF PastLastItem
        THEN /\ currentItemIndex' = 0
             /\ currentCycleIndex' =
                   IF isCycleExhausted(currentCycleIndex, plan, disciplinePointers,
                                       disciplineQueues, userAttempts)
                   THEN currentCycleIndex + 1 ELSE currentCycleIndex
        ELSE currentCycleIndex' = currentCycleIndex

C18_ContinuousAdvance == [][C18_Step]_vars

\* a continuous run went round its one-item first cycle twice on one day, and
\* left it for the second cycle once it was exhausted
C18_Witness ==
    /\ CycleSystemOf(plan) = "continuo"
    /\ Len(plan.cycles) = 2
    /\ Len(plan.cycles[1].items) = 1
    /\ Field(plan.cycles[1].items[1], "disciplineId") # ""
    /\ currentCycleIndex = 1
    /\ \E l \in DayLists : \E i \in 1..Len(l) : \E j \in 1..Len(l) :
          /\ i # j
          /\ ~IsExam(l[i]) /\ ~IsExam(l[j])
          /\ l[i].uniqueId[2] = plan.cycles[1].id
          /\ l[j].uniqueId[2] = plan.cycles[1].id

\* the cycle a rotating iteration works on: an index past the last cycle
\* stands for cycle 0
RotatingCycle == IF currentCycleIndex >= Len(plan.cycles) THEN 0 ELSE currentCycleIndex

RotatingPastLastItem ==
    currentItemIndex >= Len(expandCycleItems(plan.cycles[RotatingCycle + 1], plan))

\* C19 -- rotating-mode cycle advance: an iteration that finds currentItemIndex
\* past the last item moves to the next cycle and resets currentItemIndex,
\* exhausted or not; an index past the last cycle is taken as cycle 0; no
\* other step changes the cycle, so the cycles are visited in round-robin order.
C19_Step ==
    (CycleSystemOf(plan) = "rotativo" /\ Len(plan.cycles) > 0) =>
        /\ WhileCond =>
              IF RotatingPastLastItem
              THEN /\ currentCycleIndex' = RotatingCycle + 1
                   /\ currentItemIndex' = 0
              ELSE currentCycleIndex' = RotatingCycle
        /\ (pc \in {"alloc", "visit"} /\ ~WhileCond) => currentCycleIndex' = currentCycleIndex

C19_RotatingAdvance == [][C19_Step]_vars

\* one day of a rotating run over three cycles: the first cycle, left while it
\* still had goals, comes round again after the two others
C19_Witness ==
    /\ CycleSystemOf(plan) = "rotativo"
    /\ Len(plan.cycles) = 3
    /\ \E l \in DayLists :
          /\ Len(l) >= 4
          /\ \A i \in 1..4 : ~IsExam(l[i])
          /\ l[1].uniqueId[2] = plan.cycles[1].id
          /\ l[2].uniqueId[2] = plan.cycles[2].id
          /\ l[3].uniqueId[2] = plan.cycles[3].id
          /\ l[4].uniqueId[2] = plan.cycles[1].id

\* continuous mode has left the last cycle behind
PlanComplete ==
    /\ CycleSystemOf(plan) = "continuo"
    /\ pc \notin {"start", "done"}
    /\ currentCycleIndex >= Len(plan.cycles)

\* C20 -- continuous-mode plan completion: once currentCycleIndex is past the
\* last cycle it stays there, an iteration of the allocation loop ends the day
\* at once, and no list of the agenda (nor the day being filled) gains an item.
C20_Step ==
    PlanComplete =>
        /\ currentCycleIndex' = currentCycleIndex
        /\ WhileCond => (pc' = "dayEnd" /\ dayItems' = dayItems)
        /\ DayLists' \subseteq (DayLists \cup {<<>>})

C20_PlanCompletion == [][C20_Step]_vars

\* a continuous run that went through both of its cycles has returned an
\* agenda, and a later day with minutes was left without a key
C20_Witness ==
    /\ pc = "done"
    /\ CycleSystemOf(plan) = "continuo"
    /\ Len(plan.cycles) = 2
    /\ currentCycleIndex = 2
    /\ \E d \in DOMAIN schedule : \E i \in 1..Len(schedule[d]) :
          ~IsExam(schedule[d][i]) /\ schedule[d][i].uniqueId[2] = plan.cycles[2].id
    /\ \E off \in 0..(MAX_DAYS - 1) :
          /\ MinutesOf(routine, getDayName(DateOf(off))) > 0
          /\ DateOf(off) \notin DOMAIN schedule
          /\ \A d \in DOMAIN schedule : d < DateOf(off)

\* the index of the first cycle that is not exhausted before anything is
\* scheduled, or the number of cycles when all are
FirstOpenCycle ==
    CHOOSE c \in 0..Len(plan.cycles) :
        /\ \A b \in 1..c : ExhaustedAtStart(b)
        /\ c < Len(plan.cycles) => ~ExhaustedAtStart(c + 1)

\* C21 -- initial cycle selection: the set-up step leaves currentItemIndex at 0
\* and currentCycleIndex at the first cycle not exhausted at the start (past
\* the last cycle if all are) in continuous mode, at 0 in rotating mode.
C21_Step ==
    (pc = "start" /\ pc' = "day") =>
        /\ currentItemIndex' = 0
        /\ currentCycleIndex' =
              IF CycleSystemOf(plan) = "continuo" THEN FirstOpenCycle ELSE 0

AtOpenExam ==
    /\ WhileCond
    /\ AtItem
    /\ Field(cycleItem, "simuladoId") # ""
    /\ InCatalog(cycleItem.simuladoId)
    /\ ~Attempted(cycleItem.simuladoId)

\* C22 -- exam placement rule: on a catalog exam without an attempt, the exam
\* is appended to the day exactly when the day has no item yet or more than 60
\* minutes remain, and then currentItemIndex advances; otherwise the day ends
\* with currentItemIndex still on the exam.  A day list that ends with an exam
\* gains nothing more.
C22_Step ==
    /\ AtOpenExam =>
          IF Len(dayItems) = 0 \/ minutesAvailable > 60
          THEN /\ Len(dayItems') = Len(dayItems) + 1
               /\ SubSeq(dayItems', 1, Len(dayItems)) = dayItems
               /\ IsExam(dayItems'[Len(dayItems')])
               /\ dayItems'[Len(dayItems')].goalId = cycleItem.simuladoId
               /\ currentItemIndex' = currentItemIndex + 1
          ELSE /\ dayItems' = dayItems
               /\ currentItemIndex' = currentItemIndex
               /\ pc' = "dayEnd"
    /\ (dayItems # <<>> /\ IsExam(dayItems[Len(dayItems)])) =>
          /\ dayItems' \in {dayItems, <<>>}
          /\ dayItems' = <<>> => schedule'[dateStr] = dayItems

C22_ExamPlacement == [][C22_Step]_vars

\* a day with goals has ended on an exam that did not get its 60 minutes
C22_Witness ==
    /\ pc = "dayEnd"
    /\ AtItem
    /\ Field(cycleItem, "simuladoId") # ""
    /\ InCatalog(cycleItem.simuladoId)
    /\ ~Attempted(cycleItem.simuladoId)
    /\ dayItems # <<>>
    /\ \A i \in 1..Len(dayItems) : ~IsExam(dayItems[i])
    /\ MinutesOf(routine, getDayName(dateStr)) - SumDuration(dayItems) > 0

\* the visit examines an uncompleted goal at the pointer
AtOpenGoal == VisitCond /\ goal.id \notin completedGoals

\* C23 -- goal placement rule: the uncompleted goal the visit examines is
\* placed exactly when the remaining minutes cover its resolved duration or the
\* day has no item yet; placed, it is recorded with that duration, the minutes
\* decrease by it and the pointer advances by one; not placed, the minutes
\* become 0, the pointer stays and the visit is over.
C23_Step ==
    AtOpenGoal =>
        IF minutesAvailable >= ResolveDuration(goal, userLevel) \/ Len(dayItems) = 0
        THEN /\ Len(dayItems') = Len(dayItems) + 1
             /\ SubSeq(dayItems', 1, Len(dayItems)) = dayItems
             /\ dayItems'[Len(dayItems')].goalId = goal.id
             /\ dayItems'[Len(dayItems')].duration = ResolveDuration(goal, userLevel)
             /\ minutesAvailable' = minutesAvailable - ResolveDuration(goal, userLevel)
             /\ disciplinePointers' =
                   [disciplinePointers EXCEPT ![cycleItem.disciplineId] = pointer + 1]
        ELSE /\ dayItems' = dayItems
             /\ minutesAvailable' = 0
             /\ disciplinePointers' = disciplinePointers
             /\ pc' # "visit"

C23_GoalPlacement == [][C23_Step]_vars

\* a day with items has ended on a goal longer than the minutes that were left
C23_Witness ==
    /\ pc = "dayEnd"
    /\ minutesAvailable = 0
    /\ dayItems # <<>>
    /\ MinutesOf(routine, getDayName(dateStr)) - SumDuration(dayItems) > 0
    /\ AtItem
    /\ Field(cycleItem, "simuladoId") = ""
    /\ HasQueue(cycleItem.disciplineId)
    /\ pointer < Len(queue)
    /\ goal.id \notin completedGoals
    /\ ResolveDuration(goal, userLevel) >
          MinutesOf(routine, getDayName(dateStr)) - SumDuration(dayItems)

\* the subject a goal belongs to: its discipline and its position there
SubjectOf(goalId) ==
    CHOOSE ks \in {<<k, j>> : k \in 1..Len(plan.disciplines), j \in 1..4} :
        /\ ks[2] <= Len(plan.disciplines[ks[1]].subjects)
        /\ \E i \in 1..Len(plan.disciplines[ks[1]].subjects[ks[2]].goals) :
              plan.disciplines[ks[1]].subjects[ks[2]].goals[i].id = goalId

\* C24 -- subject-advance counting: a placed goal adds 1 to the visit's counter
\* exactly when it is the first goal placed in the visit or its subject is not
\* the subject of the goal placed just before it in the visit; the counter
\* never exceeds the item's target.
C24_Step ==
    /\ (AtOpenGoal /\ Len(dayItems') = Len(dayItems) + 1) =>
          scheduledInThisSlot' =
              IF processedSomething
                 /\ SubjectOf(dayItems[Len(dayItems)].goalId) = SubjectOf(goal.id)
              THEN scheduledInThisSlot ELSE scheduledInThisSlot + 1
    /\ (pc = "visit" /\ HasCount(cycleItem)) => scheduledInThisSlot <= cycleItem.subjectsCount

C24_SubjectCounting == [][C24_Step]_vars

\* the loop stands on a discipline item
AtDisciplineItem == AtItem /\ Field(cycleItem, "simuladoId") = ""

\* the pointer of the current discipline item is at the end of its queue (a
\* discipline without a queue has nothing left either)
Drained ==
    IF cycleItem.disciplineId \in DOMAIN disciplineQueues
    THEN disciplinePointers[cycleItem.disciplineId]
            >= Len(disciplineQueues[cycleItem.disciplineId])
    ELSE TRUE

\* the current discipline item has a target that is not met, and an
\* uncompleted goal at its pointer
Pending ==
    /\ AtDisciplineItem
    /\ HasCount(cycleItem)
    /\ cycleItem.subjectsCount >= 1
    /\ ~Drained
    /\ goal.id \notin completedGoals

\* a visit is waiting for minutes: the day is over, or nothing was placed yet
CarryOver ==
    /\ Pending
    /\ \/ pc = "dayEnd"
       \/ pc \in {"day", "alloc", "visit"} /\ dayItems = <<>>

\* C25 -- mid-visit carry-over: currentItemIndex leaves a discipline item only
\* when the visit's counter has reached the target or the queue is drained; a
\* goal that fails the budget check leaves both cursors and the pointer as
\* they are; and from then on nothing changes them until that goal is placed
\* as the first item of a later day (or the run returns).
C25_Step ==
    /\ (pc \in {"alloc", "visit"} /\ AtDisciplineItem
          /\ currentItemIndex' # currentItemIndex) =>
          /\ currentItemIndex' = currentItemIndex + 1
          /\ \/ Drained
             \/ pc = "visit" /\ HasCount(cycleItem)
                   /\ scheduledInThisSlot >= cycleItem.subjectsCount
    /\ (AtOpenGoal /\ dayItems' = dayItems) =>
          /\ UNCHANGED <<currentCycleIndex, currentItemIndex, disciplinePointers>>
          /\ CarryOver'
    /\ CarryOver =>
          \/ /\ CarryOver'
             /\ currentItemIndex' = currentItemIndex
             /\ disciplinePointers' = disciplinePointers
             /\ CycleIdx' = CycleIdx
          \/ /\ Len(dayItems') = 1
             /\ dayItems'[1].goalId = goal.id
             /\ dayItems'[1].uniqueId[3] = cycleItem.disciplineId
          \/ pc' = "done"

C25_CarryOver == [][C25_Step]_vars

\* the day being filled opens with a goal that did not fit in what was left of
\* the previous day of the agenda, which ended on the same discipline
C25_Witness ==
    /\ pc \in {"alloc", "visit"}
    /\ Len(dayItems) = 1
    /\ ~IsExam(dayItems[1])
    /\ \E d \in DOMAIN schedule :
          /\ d < dateStr
          /\ \A e \in DOMAIN schedule : e <= d
          /\ ~IsExam(schedule[d][Len(schedule[d])])
          /\ schedule[d][Len(schedule[d])].uniqueId[3] = dayItems[1].uniqueId[3]
          /\ dayItems[1].duration >
                MinutesOf(routine, getDayName(d)) - SumDuration(schedule[d])
          /\ MinutesOf(routine, getDayName(d)) - SumDuration(schedule[d]) >= 0

\* the goals of all queues
QueuedGoals ==
    UNION { {disciplineQueues[id][k] : k \in 1..Len(disciplineQueues[id])} :
            id \in DOMAIN disciplineQueues }

\* C26 -- duration floor: a scheduled goal whose rule value is 0 is recorded
\* with 30 minutes when it is a lesson ('AULA') and with 15 otherwise; any
\* other goal is recorded with the rule's value; every recorded duration of a
\* goal is greater than 0.
C26_DurationFloor ==
    \A l \in DayLists : \A i \in 1..Len(l) :
        ~IsExam(l[i]) =>
            \A g \in QueuedGoals :
                g.id = l[i].goalId =>
                    /\ l[i].duration =
                          IF calculateGoalDuration(g, userLevel) # 0
                          THEN calculateGoalDuration(g, userLevel)
                          ELSE IF g.type = "AULA" THEN 30 ELSE 15
                    /\ l[i].duration > 0

\* a day holds a lesson and another goal whose rule value is 0
C26_Witness ==
    \E l \in DayLists : \E i \in 1..Len(l) : \E j \in 1..Len(l) :
        /\ ~IsExam(l[i]) /\ ~IsExam(l[j])
        /\ \E g \in QueuedGoals :
              g.id = l[i].goalId /\ g.type = "AULA"
                 /\ calculateGoalDuration(g, userLevel) = 0
        /\ \E g \in QueuedGoals :
              g.id = l[j].goalId /\ g.type # "AULA"
                 /\ calculateGoalDuration(g, userLevel) = 0

\* the plan positions of the disciplines of a folder
InFolder(folderId) ==
    {k \in 1..Len(plan.disciplines) : plan.disciplines[k].folderId = folderId}

\* the place of discipline k among those of its folder: by order, and by
\* plan position among equal orders
RankInFolder(k, folderId) ==
    1 + Cardinality({b \in InFolder(folderId) :
            \/ plan.disciplines[b].order < plan.disciplines[k].order
            \/ plan.disciplines[b].order = plan.disciplines[k].order /\ b < k})

\* what one cycle item stands for
ExpectedSegment(item) ==
    IF Field(item, "folderId") # "" THEN
        [p \in 1..Cardinality(InFolder(item.folderId)) |->
            LET k == CHOOSE k \in InFolder(item.folderId) : RankInFolder(k, item.folderId) = p
            IN IF "subjectsCount" \in DOMAIN item
               THEN [disciplineId |-> plan.disciplines[k].id,
                     subjectsCount |-> item.subjectsCount]
               ELSE [disciplineId |-> plan.disciplines[k].id]]
    ELSE IF Field(item, "disciplineId") # "" \/ Field(item, "simuladoId") # "" THEN <<item>>
    ELSE <<>>

RECURSIVE ExpectedExpansion(_)
ExpectedExpansion(items) ==
    IF items = <<>> THEN <<>>
    ELSE ExpectedSegment(Head(items)) \o ExpectedExpansion(Tail(items))

\* C27 -- cycle-item expansion: for every cycle of the plan, expandCycleItems
\* returns, item by item, the disciplines of a folder in discipline order with
\* the folder item's target, and a discipline or exam item as it is; no
\* expanded item names a folder.
C27_Expansion ==
    \A c \in 1..Len(plan.cycles) :
        /\ expandCycleItems(plan.cycles[c], plan) = ExpectedExpansion(plan.cycles[c].items)
        /\ \A i \in 1..Len(expandCycleItems(plan.cycles[c], plan)) :
              LET it == expandCycleItems(plan.cycles[c], plan)[i]
              IN /\ "folderId" \notin DOMAIN it
                 /\ ("disciplineId" \in DOMAIN it) # ("simuladoId" \in DOMAIN it)

\* the allocation loop works on the expansion of a cycle that holds a folder
\* without disciplines and a folder whose disciplines are not stored in order
C27_Witness ==
    /\ pc = "alloc"
    /\ InPlan
    /\ \E i \in 1..Len(cycle.items) :
          Field(cycle.items[i], "folderId") # "" /\ InFolder(cycle.items[i].folderId) = {}
    /\ \E i \in 1..Len(cycle.items) :
          /\ Field(cycle.items[i], "folderId") # ""
          /\ \E a \in InFolder(cycle.items[i].folderId) :
                \E b \in InFolder(cycle.items[i].folderId) :
                    a < b /\ plan.disciplines[b].order < plan.disciplines[a].order
    /\ Len(activeItems) >= 3
    /\ currentItemIndex >= 1

\* C28 -- skipping a completed goal is free: the step of a visit that meets a
\* goal contained in completedGoals moves that discipline's pointer by exactly
\* one and changes nothing else of the day or of the cursors.
C28_Step ==
    (VisitCond /\ goal.id \in completedGoals) =>
        /\ disciplinePointers' =
              [disciplinePointers EXCEPT ![cycleItem.disciplineId] = pointer + 1]
        /\ UNCHANGED <<minutesAvailable, itemsProcessedToday, dayItems,
                       scheduledInThisSlot, currentItemIndex, currentCycleIndex>>

C28_SkipIsFree == [][C28_Step]_vars

\* a visit has just stepped over a completed goal, on a day that has items and
\* minutes left
C28_Witness ==
    /\ pc = "visit"
    /\ pointer >= 1
    /\ queue[pointer].id \in completedGoals
    /\ scheduledInThisSlot = 0
    /\ dayItems # <<>>
    /\ minutesAvailable > 0

\* C29 -- oversized first goal: a goal longer than the day's minutes that
\* comes first is placed with its full duration; a day list that starts with
\* such a goal holds that item only; and while the visit's target is not
\* reached and the queue not drained, currentItemIndex does not move.
C29_Step ==
    /\ (AtOpenGoal /\ dayItems = <<>>
          /\ ResolveDuration(goal, userLevel) > minutesAvailable) =>
          /\ Len(dayItems') = 1
          /\ dayItems'[1].goalId = goal.id
          /\ dayItems'[1].duration = ResolveDuration(goal, userLevel)
    /\ \A l \in DayLists' :
          (/\ l # <<>>
           /\ ~IsExam(l[1])
           /\ l[1].duration > MinutesOf(routine, getDayName(l[1].date))) => Len(l) = 1
    /\ (/\ pc \in {"visit", "dayEnd"}
        /\ Len(dayItems) = 1
        /\ ~IsExam(dayItems[1])
        /\ dayItems[1].duration > MinutesOf(routine, getDayName(dateStr))
        /\ AtDisciplineItem
        /\ HasCount(cycleItem)
        /\ scheduledInThisSlot < cycleItem.subjectsCount
        /\ ~Drained) => currentItemIndex' = currentItemIndex

C29_OversizedFirstGoal == [][C29_Step]_vars

\* a day has ended with one goal longer than its minutes, in the middle of a
\* visit of two subjects
C29_Witness ==
    /\ pc = "dayEnd"
    /\ Len(dayItems) = 1
    /\ ~IsExam(dayItems[1])
    /\ dayItems[1].duration > MinutesOf(routine, getDayName(dateStr))
    /\ AtDisciplineItem
    /\ HasCount(cycleItem)
    /\ cycleItem.subjectsCount = 2
    /\ cycleItem.disciplineId = dayItems[1].uniqueId[3]
    /\ ~Drained

\* ------------------------------------------- the dashboard around the scheduler
\* how many handler calls one session of the dashboard makes
MaxEdits == 2

\* the plans the dashboard is opened with: nothing completed, no attempt yet
DashboardInputs ==
    { Input(<<Matematica, Direito>>, cl, "continuo",
            [days |-> [segunda |-> 120, quarta |-> 30]], 8, {}, "iniciante", FALSE,
            <<>>, 0 - 3) :
        cl \in { <<<<ItemD1x2, ItemExam>>, <<ItemD2x2, ItemUnknownExam>>>>,
                 <<<<ItemD1>>>> } }

\* line 947: the dependency list of the schedule effect; objects and arrays are
\* compared by identity, the level (a string) by value
CurrentDeps ==
    [completed |-> refs.completed, attempts |-> refs.attempts,
     planConfigs |-> refs.planConfigs, routine |-> refs.routine, level |-> userLevel]

\* line 944: the arguments the effect reads when it calls generateSchedule
CurrentInputs ==
    [completedGoals |-> completedGoals, userAttempts |-> userAttempts,
     isPaused |-> isPaused, routine |-> routine, userLevel |-> userLevel]

\* the parent component is handed the updated user record and passes it back
\* as the user prop: the objects inside keep the identities the handler left
onUpdateUser(updatedRefs) == updatedRefs

\* the effect has run for the present dependencies and the run has returned
AtRest == pc = "done" /\ CurrentDeps = effectDeps

\* the goals the displayed schedule shows
ShownGoals ==
    UNION { {schedule[d][i].goalId : i \in {k \in 1..Len(schedule[d]) :
                                                ~IsExam(schedule[d][k])}} :
            d \in DOMAIN schedule }

\* lines 939-947: after a render in which a dependency differs from the one of
\* its last run, the effect calls generateSchedule and stores the result
ScheduleEffect ==
    /\ pc = "done"
    /\ CurrentDeps # effectDeps
    /\ effectDeps' = CurrentDeps
    /\ ranWith' = CurrentInputs
    /\ pc' = "start"
    /\ UNCHANGED <<plan, args, schedule, disciplineQueues, disciplinePointers,
                   cursors, dayVars, visitVars, runs, firstSchedule, refs, edits,
                   account, viewer>>

\* lines 1074-1096: the completion toggle of a goal builds a new array
\* (line 1083 with the goal appended, line 1091 with the goal filtered out)
ToggleGoalComplete ==
    /\ AtRest
    /\ edits < MaxEdits
    /\ \E gid \in ShownGoals \cup completedGoals :
          completedGoals' = IF gid \in completedGoals THEN completedGoals \ {gid}
                            ELSE completedGoals \cup {gid}
    /\ refs' = onUpdateUser([refs EXCEPT !.completed = @ + 1])
    /\ edits' = edits + 1
    /\ UNCHANGED <<plan, routine, startDateStr, userLevel, isPaused, allSimulados,
                   userAttempts, utcOffset, pc, schedule, disciplineQueues,
                   disciplinePointers, cursors, dayVars, visitVars, runs,
                   firstSchedule, effectDeps, ranWith, account, viewer>>

\* lines 1060-1072: the timer of a displayed goal is stopped; with completion
\* the goal is pushed onto the array the user record already holds (line 1068:
\* the copies of line 1064 share it), so the array keeps its identity
SaveStudyTime ==
    /\ AtRest
    /\ edits < MaxEdits
    /\ \E comp \in BOOLEAN, activeGoalId \in ShownGoals :
          completedGoals' = IF comp THEN completedGoals \cup {activeGoalId}
                            ELSE completedGoals
    /\ refs' = onUpdateUser(refs)
    /\ edits' = edits + 1
    /\ UNCHANGED <<plan, routine, startDateStr, userLevel, isPaused, allSimulados,
                   userAttempts, utcOffset, pc, schedule, disciplineQueues,
                   disciplinePointers, cursors, dayVars, visitVars, runs,
                   firstSchedule, effectDeps, ranWith, account, viewer>>

\* line 1098: a finished exam is appended to a new attempts array
HandleSimuladoFinished ==
    /\ AtRest
    /\ edits < MaxEdits
    /\ \E result \in {[simuladoId |-> "S1"]} : userAttempts' = Append(userAttempts, result)
    /\ refs' = [refs EXCEPT !.attempts = @ + 1]
    /\ edits' = edits + 1
    /\ UNCHANGED <<plan, routine, startDateStr, completedGoals, userLevel, isPaused,
                   allSimulados, utcOffset, pc, schedule, disciplineQueues,
                   disciplinePointers, cursors, dayVars, visitVars, runs,
                   firstSchedule, effectDeps, ranWith, account, viewer>>

\* lines 1036-1056, on the start day of the plan (getTodayStr() is the start
\* date): restart empties the completed goals into a new array, pause flips
\* the flag, reschedule clears it; each builds a new planConfigs object
HandlePlanAction ==
    /\ AtRest
    /\ edits < MaxEdits
    /\ \E action \in {"pause", "reschedule", "restart"} :
          /\ completedGoals' = IF action = "restart" THEN {} ELSE completedGoals
          /\ isPaused' = IF action = "pause" THEN ~isPaused ELSE FALSE
          /\ refs' = onUpdateUser(
                        [refs EXCEPT !.planConfigs = @ + 1,
                                     !.completed = IF action = "restart" THEN @ + 1
                                                   ELSE @])
    /\ edits' = edits + 1
    /\ UNCHANGED <<plan, routine, startDateStr, userLevel, allSimulados, userAttempts,
                   utcOffset, pc, schedule, disciplineQueues, disciplinePointers,
                   cursors, dayVars, visitVars, runs, firstSchedule, effectDeps,
                   ranWith, account, viewer>>

\* lines 1023-1034: the wizard hands over a new routine object and a level;
\* the plan configurations are copied into a new object
HandleSetupSave ==
    /\ AtRest
    /\ edits < MaxEdits
    /\ \E rt \in Routines, level \in Levels :
          /\ routine' = rt
          /\ userLevel' = level
    /\ refs' = onUpdateUser([refs EXCEPT !.routine = @ + 1, !.planConfigs = @ + 1])
    /\ edits' = edits + 1
    /\ UNCHANGED <<plan, startDateStr, completedGoals, isPaused, allSimulados,
                   userAttempts, utcOffset, pc, schedule, disciplineQueues,
                   disciplinePointers, cursors, dayVars, visitVars, runs,
                   firstSchedule, effectDeps, ranWith, account, viewer>>

NextDashboard ==
    \/ Next
    \/ ScheduleEffect
    \/ ToggleGoalComplete
    \/ SaveStudyTime
    \/ HandleSimuladoFinished
    \/ HandlePlanAction
    \/ HandleSetupSave

SpecDashboard == InitWith(DashboardInputs) /\ [][NextDashboard]_vars

GoalItemsOf(l) == SelectSeq(l, LAMBDA it : ~IsExam(it))
Prefix(l, n) == SubSeq(l, 1, n)
\* the minutes the routine gives to the weekday of a day's list
BudgetOf(l) == MinutesOf(routine, getDayName(l[1].date))

\* C31 -- daily budget: on every date (and in the day being filled) the goal
\* items sum to at most the weekday's minutes, unless the day's first item is
\* a goal longer than those minutes; every goal item after the first was
\* placed with at least its duration left.
C31_DailyBudget ==
    \A l \in DayLists :
        l # <<>> =>
            /\ (~(~IsExam(l[1]) /\ l[1].duration > BudgetOf(l))) =>
                  SumDuration(GoalItemsOf(l)) <= BudgetOf(l)
            /\ \A i \in 2..Len(l) :
                  ~IsExam(l[i]) =>
                      BudgetOf(l) - SumDuration(Prefix(l, i - 1)) >= l[i].duration

\* a committed day whose goals use up the weekday's minutes exactly, and a
\* committed day opened by a goal longer than its minutes
C31_Witness ==
    /\ \E d \in DOMAIN schedule :
          /\ Len(schedule[d]) >= 2
          /\ \A i \in 1..Len(schedule[d]) : ~IsExam(schedule[d][i])
          /\ SumDuration(schedule[d]) = BudgetOf(schedule[d])
    /\ \E d \in DOMAIN schedule :
          /\ ~IsExam(schedule[d][1])
          /\ schedule[d][1].duration > BudgetOf(schedule[d])

\* the places of the agenda (and of the day being filled) that hold a goal
GoalPlaces ==
    UNION { {<<l, i>> : i \in {k \in 1..Len(l) : ~IsExam(l[k])}} : l \in DayLists }

\* C32 -- each goal at most once: no two places of the agenda, on the same
\* date or on different dates, hold the same goal (the goal ids of the plans
\* drawn are unique).
C32_GoalAtMostOnce ==
    \A p, q \in GoalPlaces :
        p[1][p[2]].goalId = q[1][q[2]].goalId => p = q

\* a finished run that scheduled goals of one discipline from two cycles
C32_Witness ==
    /\ pc = "done"
    /\ \E p, q \in GoalPlaces :
          /\ p[1][p[2]].uniqueId[3] = q[1][q[2]].uniqueId[3]
          /\ p[1][p[2]].uniqueId[2] # q[1][q[2]].uniqueId[2]

\* the item at a place, its discipline, and its position in that discipline's queue
ItemAt(p) == p[1][p[2]]
DisciplineAt(p) == ItemAt(p).uniqueId[3]
QueuePos(p) ==
    CHOOSE k \in 1..Len(disciplineQueues[DisciplineAt(p)]) :
        disciplineQueues[DisciplineAt(p)][k].id = ItemAt(p).goalId
\* chronological order of two places: by date, then by position in the day
Before(p, q) ==
    \/ ItemAt(p).date < ItemAt(q).date
    \/ ItemAt(p).date = ItemAt(q).date /\ p[2] < q[2]

\* C33 -- queue order preserved: read chronologically, the goals of one
\* discipline come in strictly increasing queue position, and every goal that
\* precedes a scheduled goal in the queue is completed or scheduled before it.
C33_QueueOrder ==
    \A p \in GoalPlaces :
        /\ \A q \in GoalPlaces :
              (DisciplineAt(p) = DisciplineAt(q) /\ Before(p, q)) =>
                  QueuePos(p) < QueuePos(q)
        /\ \A k \in 1..(QueuePos(p) - 1) :
              \/ disciplineQueues[DisciplineAt(p)][k].id \in completedGoals
              \/ \E q \in GoalPlaces :
                    /\ DisciplineAt(q) = DisciplineAt(p)
                    /\ QueuePos(q) = k
                    /\ Before(q, p)

\* a finished run that scheduled two goals of one discipline on different
\* dates, with a completed goal between them in the queue
C33_Witness ==
    /\ pc = "done"
    /\ \E p, q \in GoalPlaces :
          /\ DisciplineAt(p) = DisciplineAt(q)
          /\ ItemAt(p).date < ItemAt(q).date
          /\ \E k \in (QueuePos(p) + 1)..(QueuePos(q) - 1) :
                disciplineQueues[DisciplineAt(p)][k].id \in completedGoals

Continuous == CycleSystemOf(plan) = "continuo"

\* cycle c (1-based position) has nothing left to schedule now: each expanded
\* item is an attempted exam, a discipline whose pointer stands at the end of
\* its queue, or an item that names nothing
ExhaustedNow(c) ==
    \A i \in 1..Len(expandCycleItems(plan.cycles[c], plan)) :
        LET it == expandCycleItems(plan.cycles[c], plan)[i]
        IN IF Field(it, "simuladoId") # "" THEN Attempted(it.simuladoId)
           ELSE IF Field(it, "disciplineId") # "" THEN
               /\ it.disciplineId \in DOMAIN disciplinePointers
               /\ disciplinePointers[it.disciplineId] >=
                      Len(disciplineQueues[it.disciplineId])
           ELSE TRUE

\* the position (1-based) of the cycle a goal item was placed from
CycleOf(p) == CHOOSE c \in 1..Len(plan.cycles) : plan.cycles[c].id = ItemAt(p).uniqueId[2]

\* C34 -- continuous-mode cycle order: in continuous mode the cycle cursor
\* never decreases; every cycle it passes is exhausted when it is left; an
\* item is placed from the cycle the cursor stands at, so read chronologically
\* the cycles of the goal items never decrease.
C34_Step ==
    Continuous =>
        /\ currentCycleIndex' >= currentCycleIndex
        /\ \A c \in (currentCycleIndex + 1)..currentCycleIndex' :
              c <= Len(plan.cycles) => ExhaustedNow(c)'
        /\ Len(dayItems') > Len(dayItems) =>
              FromCycle(dayItems'[Len(dayItems')], currentCycleIndex' + 1)
        /\ \A p, q \in GoalPlaces' : Before(p, q) => CycleOf(p) <= CycleOf(q)

C34_ContinuousCycleOrder == [][C34_Step]_vars

\* a continuous run has returned an agenda with goals of two cycles, the
\* first of which was left during the run
C34_Witness ==
    /\ pc = "done"
    /\ Continuous
    /\ currentCycleIndex >= 1
    /\ \E p, q \in GoalPlaces : CycleOf(p) = 1 /\ CycleOf(q) = 2

\* the expanded items of cycle c (1-based position)
ItemsOfCycle(c) == expandCycleItems(plan.cycles[c], plan)

\* cycle c names a catalog exam that has no attempt
HoldsOpenExam(c) ==
    \E i \in 1..Len(ItemsOfCycle(c)) :
        /\ Field(ItemsOfCycle(c)[i], "simuladoId") # ""
        /\ InCatalog(ItemsOfCycle(c)[i].simuladoId)
        /\ ~Attempted(ItemsOfCycle(c)[i].simuladoId)

\* every discipline cycle c names has its pointer at the end of its queue (or
\* has no queue)
DisciplinesDrained(c) ==
    \A i \in 1..Len(ItemsOfCycle(c)) :
        LET it == ItemsOfCycle(c)[i]
        IN (Field(it, "simuladoId") = "" /\ Field(it, "disciplineId") # ""
            /\ it.disciplineId \in DOMAIN disciplineQueues) =>
               disciplinePointers[it.disciplineId] >= Len(disciplineQueues[it.disciplineId])

\* C35 -- an un-attempted exam is not consumed by being scheduled: in
\* continuous mode the cursor never leaves a cycle that names a catalog exam
\* without an attempt, no goal of a later cycle is scheduled, and once the
\* cycle's disciplines are drained a day that places no goal ends with that
\* exam as its only item.
C35_Step ==
    (Continuous /\ InPlan /\ HoldsOpenExam(currentCycleIndex + 1)) =>
        /\ currentCycleIndex' = currentCycleIndex
        /\ \A p \in GoalPlaces' : CycleOf(p) <= currentCycleIndex + 1
        /\ (/\ pc = "dayEnd"
            /\ DisciplinesDrained(currentCycleIndex + 1)
            /\ GoalItemsOf(dayItems) = <<>>) =>
               /\ Len(dayItems) = 1
               /\ IsExam(dayItems[1])
               /\ FromCycle(dayItems[1], currentCycleIndex + 1)

DanglingItem(it) ==
    IF Field(it, "simuladoId") # ""
    THEN ~InCatalog(it.simuladoId) /\ ~Attempted(it.simuladoId)
    ELSE Field(it, "disciplineId") # "" /\ it.disciplineId \notin DisciplineIds(plan)

HoldsDangling(c) == \E i \in 1..Len(ItemsOfCycle(c)) : DanglingItem(ItemsOfCycle(c)[i])

\* nothing of cycle c can be placed any more: its disciplines are drained and
\* its catalog exams attempted
OthersDrained(c) ==
    /\ DisciplinesDrained(c)
    /\ ~HoldsOpenExam(c)

\* C36 -- a dangling reference blocks a continuous cycle: in continuous mode
\* the cursor never leaves a cycle with a dangling item and no goal of a later
\* cycle is scheduled; once the other items are drained every iteration of a
\* day places nothing and the day ends only at the iteration cap, empty.
C36_Step ==
    (Continuous /\ InPlan /\ HoldsDangling(currentCycleIndex + 1)) =>
        /\ currentCycleIndex' = currentCycleIndex
        /\ \A p \in GoalPlaces' : CycleOf(p) <= currentCycleIndex + 1
        /\ (OthersDrained(currentCycleIndex + 1) /\ pc = "alloc" /\ minutesAvailable > 0) =>
              /\ dayItems' = dayItems
              /\ minutesAvailable' = minutesAvailable
              /\ \/ pc' = "alloc" /\ safetyLoop' = safetyLoop + 1
                 \/ pc' = "dayEnd" /\ safetyLoop = SafetyLimit
        /\ (OthersDrained(currentCycleIndex + 1) /\ pc = "dayEnd"
            /\ itemsProcessedToday = 0) =>
              /\ safetyLoop = SafetyLimit
              /\ schedule' = schedule

C36_DanglingBlocks == [][C36_Step]_vars

\* a day ends at the iteration cap with nothing placed, in a cycle that holds
\* a dangling item and a discipline drained on an earlier date, while a later
\* cycle has goals left
C36_Witness ==
    /\ pc = "dayEnd"
    /\ Continuous
    /\ InPlan
    /\ HoldsDangling(currentCycleIndex + 1)
    /\ OthersDrained(currentCycleIndex + 1)
    /\ safetyLoop = SafetyLimit
    /\ dayItems = <<>>
    /\ \E p \in GoalPlaces : CycleOf(p) = currentCycleIndex + 1
    /\ currentCycleIndex + 2 <= Len(plan.cycles)
    /\ ~ExhaustedNow(currentCycleIndex + 2)

\* the subjects of the goals the visit in progress has placed
VisitSubjects ==
    {SubjectOf(dayItems[i].goalId) :
        i \in (Len(dayItems) - placedInVisit + 1)..Len(dayItems)}

\* C37 -- visit extent: the counter and the remembered subject are fresh when
\* a visit starts; a visit with target N >= 1 places goals of at most N
\* subjects, examines no further goal once it has placed a goal of the N-th
\* subject, and goes on to the next goal of the queue before that.
C37_Step ==
    /\ (pc = "alloc" /\ pc' = "visit") =>
          /\ scheduledInThisSlot' = 0
          /\ lastSubName' = ""
          /\ placedInVisit' = 0
    /\ (pc = "visit" /\ HasCount(cycleItem) /\ cycleItem.subjectsCount >= 1) =>
          /\ Cardinality(VisitSubjects) <= cycleItem.subjectsCount
          /\ Cardinality(VisitSubjects) = cycleItem.subjectsCount => ~VisitCond
          /\ (Cardinality(VisitSubjects) < cycleItem.subjectsCount
              /\ pointer < Len(queue)) => VisitCond

C37_VisitExtent == [][C37_Step]_vars

\* --------------------------------------------------- the switch of the plan
\* lines 62-66: today's date (the day after the start dates of the runs above)
getTodayStr == 9

PlanIdSet == {PlanIds[k] : k \in 1..Len(PlanIds)}

\* a plan's configuration: absent, or a start date and the pause flag
Configs ==
    {<<>>} \cup {<<[startDate |-> d, isPaused |-> b]>> : d \in {8, getTodayStr}, b \in BOOLEAN}

\* lines 953-956: the plan the dashboard shows for a user record: the plan of
\* currentPlanId when it is set and in the list, otherwise the first plan
loadData(userPlanId) == IF userPlanId \in PlanIdSet THEN userPlanId ELSE PlanIds[1]

\* mutation of SwitchedConfigs: the plan left behind is not paused
SwitchedConfigs_OldKeepsRunning(newPlanId) ==
    IF planConfigs[newPlanId] = <<>>
    THEN [planConfigs EXCEPT ![newPlanId] = <<[startDate |-> getTodayStr, isPaused |-> FALSE]>>]
    ELSE [planConfigs EXCEPT ![newPlanId] = <<[@[1] EXCEPT !.isPaused = FALSE]>>]

\* lines 978-993: newConfigs, a copy of user.planConfigs in which the old plan
\* is paused (created with today's date when it had no configuration) and the
\* new plan is unpaused (created with today's date when it had none)
SwitchedConfigs(newPlanId) ==
    LET oldPlanId == currentPlan
        paused == IF oldPlanId # ""
                  THEN [planConfigs EXCEPT ![oldPlanId] =
                           IF @ = <<>> THEN <<[startDate |-> getTodayStr, isPaused |-> TRUE]>>
                           ELSE <<[@[1] EXCEPT !.isPaused = TRUE]>>]
                  ELSE planConfigs
    IN IF paused[newPlanId] = <<>>
       THEN [paused EXCEPT ![newPlanId] = <<[startDate |-> getTodayStr, isPaused |-> FALSE]>>]
       ELSE [paused EXCEPT ![newPlanId] = <<[@[1] EXCEPT !.isPaused = FALSE]>>]

\* lines 1011-1021 and 974-1009: the switch is offered for a plan other than
\* the one shown and runs once confirmed; the user record gets the new
\* configurations and currentPlanId; the dashboard shows the target plan (line
\* 1001) until loadData (line 1008), which reads the user record of the render
\* the handler was created in, sets the plan shown again
ExecutePlanSwitch ==
    /\ \E newPlanId \in PlanIdSet :
          /\ newPlanId # currentPlan
          /\ planConfigs' = SwitchedConfigs(newPlanId)
          /\ currentPlanId' = newPlanId
    /\ currentPlan' = loadData(currentPlanId)
    /\ UNCHANGED <<plan, args, pc, schedule, disciplineQueues, disciplinePointers,
                   cursors, dayVars, visitVars, runs, firstSchedule, refs, effectDeps,
                   ranWith, edits, viewer>>

NextSwitch == ExecutePlanSwitch

\* the user record as the dashboard finds it when it mounts
InitSwitch ==
    /\ InitScheduler(DashboardInputs)
    /\ planConfigs \in [PlanIdSet -> Configs]
    /\ currentPlanId \in PlanIdSet \cup {""}
    /\ currentPlan = loadData(currentPlanId)
    /\ ViewerClosed

SpecSwitch == InitSwitch /\ [][NextSwitch]_vars

Running(configs, p) == configs[p] # <<>> /\ ~configs[p][1].isPaused

\* C38 -- plan switch: a switch to a plan pauses the plan shown before and
\* keeps its start date, unpauses the new plan (start date kept, or today for
\* a new configuration), sets currentPlanId, and leaves the completed goals
\* and every other plan's configuration alone; only the new plan can become
\* unpaused.
C38_Step ==
    LET oldPlanId == currentPlan
        newPlanId == currentPlanId'
    IN /\ newPlanId \in PlanIdSet
       /\ planConfigs'[oldPlanId] # <<>>
       /\ planConfigs'[oldPlanId][1].isPaused
       /\ planConfigs[oldPlanId] # <<>> =>
             planConfigs'[oldPlanId][1].startDate = planConfigs[oldPlanId][1].startDate
       /\ planConfigs'[newPlanId] # <<>>
       /\ ~planConfigs'[newPlanId][1].isPaused
       /\ planConfigs'[newPlanId][1].startDate =
             IF planConfigs[newPlanId] # <<>> THEN planConfigs[newPlanId][1].startDate
             ELSE getTodayStr
       /\ \A p \in PlanIdSet \ {oldPlanId, newPlanId} : planConfigs'[p] = planConfigs[p]
       /\ completedGoals' = completedGoals
       /\ \A p \in PlanIdSet :
             (Running(planConfigs', p) /\ ~Running(planConfigs, p)) => p = newPlanId

C38_PlanSwitch == [][C38_Step]_vars

\* after a switch from the first plan, shown for a user without currentPlanId,
\* to the second: the first is paused, the second runs from today
C38_Witness ==
    /\ currentPlanId = "P2"
    /\ currentPlan = "P1"
    /\ planConfigs["P1"] # <<>>
    /\ planConfigs["P1"][1].isPaused
    /\ planConfigs["P2"] = <<[startDate |-> getTodayStr, isPaused |-> FALSE]>>

\* ----------------------------------------------------- the flashcard viewer
\* the largest deck, and the most clicks that can fall inside one 300 ms delay
MaxCards == 4
MaxPending == 2

Decks == {[k \in 1..n |-> k] : n \in 1..MaxCards}

\* lines 120 and 183, 199: the viewer renders the card at currentIndex; with
\* no card there the render throws and the viewer is gone
Rendered == flashcards # <<>> /\ currentIndex < Len(flashcards)

\* lines 124-133: the click reads currentIndex of the render it belongs to and
\* leaves a timeout that will apply `prev => prev + 1` or set 0
nextCard ==
    /\ Rendered
    /\ Len(timers) < MaxPending
    /\ timers' = Append(timers, [op |-> "next",
                                 update |-> IF currentIndex < Len(flashcards) - 1
                                            THEN "increment" ELSE "first"])
    /\ UNCHANGED <<plan, args, pc, schedule, disciplineQueues, disciplinePointers,
                   cursors, dayVars, visitVars, runs, firstSchedule, refs, effectDeps,
                   ranWith, edits, account, flashcards, currentIndex>>

\* lines 135-144: as nextCard, with `prev => prev + 1` when currentIndex > 0
\* and the last index otherwise
prevCard ==
    /\ Rendered
    /\ Len(timers) < MaxPending
    /\ timers' = Append(timers, [op |-> "prev",
                                 update |-> IF currentIndex > 0
                                            THEN "increment" ELSE "last"])
    /\ UNCHANGED <<plan, args, pc, schedule, disciplineQueues, disciplinePointers,
                   cursors, dayVars, visitVars, runs, firstSchedule, refs, effectDeps,
                   ranWith, edits, account, flashcards, currentIndex>>

\* lines 127-131 and 138-142: the oldest timeout fires and updates the state
\* of the viewer, if it is still there
Timeout ==
    /\ Rendered
    /\ timers # <<>>
    /\ currentIndex' = IF Head(timers).update = "increment" THEN currentIndex + 1
                       ELSE IF Head(timers).update = "first" THEN 0
                       ELSE Len(flashcards) - 1
    /\ timers' = Tail(timers)
    /\ UNCHANGED <<plan, args, pc, schedule, disciplineQueues, disciplinePointers,
                   cursors, dayVars, visitVars, runs, firstSchedule, refs, effectDeps,
                   ranWith, edits, account, flashcards>>

NextViewer == nextCard \/ prevCard \/ Timeout

\* line 117: the viewer opens on the first card of a deck
InitViewer ==
    /\ InitScheduler(DashboardInputs)
    /\ AccountAtMount
    /\ flashcards \in Decks
    /\ currentIndex = 0
    /\ timers = <<>>

SpecViewer == InitViewer /\ [][NextViewer]_vars

\* C39 -- flashcard index stays in range: with a non-empty deck the index is
\* always one of 0..length-1; a click on next, once its delay has passed, shows
\* the following card (the first after the last) and a click on previous the
\* preceding card (the last before the first).
C39_Step ==
    /\ currentIndex' \in 0..(Len(flashcards) - 1)
    /\ (timers # <<>> /\ timers' = Tail(timers)) =>
          currentIndex' = IF Head(timers).op = "next"
                          THEN (currentIndex + 1) % Len(flashcards)
                          ELSE (currentIndex + Len(flashcards) - 1) % Len(flashcards)

C39_IndexInRange == [][C39_Step]_vars
====
